---------------------------- MODULE Spec2Model ----------------------------
(***************************************************************************)
(* A model of the cooperative multitasking core of the ME405 repository:   *)
(* the shared-data primitives of task_share.py (Queue, Share) and the      *)
(* scheduler of cotask.py (Task, TaskList).                                *)
(*                                                                         *)
(* The module holds one specification per component.  Each specification   *)
(* moves the variables of its own component and leaves the others at their *)
(* initial values:                                                         *)
(*   SpecQueue  one Queue, used from the main context and from interrupt   *)
(*              handlers;                                                  *)
(*   SpecShare  one Share, used likewise;                                  *)
(*   SpecSched  one TaskList driven by repeated pri_sched() calls, with    *)
(*              go() calls from interrupt handlers and the tick counter    *)
(*              advancing between any two steps.                           *)
(*   SpecRR     the same TaskList driven by rr_sched() calls;              *)
(*   SpecList   a TaskList to which tasks are appended;                    *)
(*   SpecTask   one Task on its own, with its profiling and trace fields,  *)
(*              its schedule() called step by step (SpecTaskLive: with     *)
(*              the fairness of a dispatch loop that goes on calling it);  *)
(*   SpecCtor   the constructors of Queue and Share, and share_list;       *)
(*   SpecPeriod one Task whose schedule(), go() and set_period() are       *)
(*              called one after the other, each call one step;            *)
(*   SpecProf   the same with profiling or tracing, and set_period left    *)
(*              out;                                                       *)
(*   SpecMask   one Queue and one Share with the interrupt mask their put  *)
(*              and get take, a main-context call being one step per       *)
(*              statement group.                                           *)
(*                                                                         *)
(* Interrupt handlers run to completion: a call made with in_ISR = True is *)
(* one step.  A main-context Queue call is several steps, and interrupt    *)
(* calls interleave between them.  A call on a Share is one step, taken at *)
(* its single store or load.                                               *)
(***************************************************************************)
EXTENDS Integers, Sequences, FiniteSets

VARIABLES
    queue,      \* the Queue object: its fields, as a record
    q_pc,       \* position of the main context inside a Queue call
    q_item,     \* the argument of the main-context put in progress
    q_last,     \* history: the step taken last
    fifo_phase, \* history: "fill" / "drain" while the calls since the queue
                \*          was last empty are main-context puts followed by
                \*          main-context gets, "off" otherwise
    fifo_in,    \* history: the values put in this phase, oldest first
    fifo_out,   \* history: the values the gets of this phase returned
    q_isr_seen, \* history: an interrupt handler has used the queue
    q_live,     \* history: the slots of the buffer that hold a value put and
                \*          not read since
    share,      \* the Share object: its fields, as a record
    sh_ret,     \* the value the last get returned
    sh_last,    \* history: the step taken last
    sh_put,     \* history: the argument of the last put
    sh_prev,    \* history: the argument of the put before the last put
    sh_gets,    \* history: the gets since the last put (counted to MaxGets)
    now,        \* utime.ticks_us(): the microsecond counter
    task,       \* the Task objects: for each task its fields, as a record
    pri_list,   \* TaskList.pri_list: the groups [priority, cursor, task, ..]
    s_pc,       \* position of the main context inside pri_sched()
    s_grp,      \* pri_sched: the group the for loop is at (1 = first)
    s_tries,    \* pri_sched: the local variable tries
    s_length,   \* pri_sched: the local variable length
    s_cur0,     \* history: the cursors of the groups when this call began
    s_rdy0,     \* history: the tasks that were ready when this call began
    s_wait,     \* history: for each task, the completed calls in a row, up
                \*          to now, that began with the task ready and resumed
                \*          neither it nor a task of higher priority, no task
                \*          being appended meanwhile (counted to MaxCalls)
    s_polled,   \* history: the tasks this call polled and found not ready
    s_woken,    \* history: those of them that go() or the clock may have
                \*          made ready since
    s_rdy_pri,  \* history: the highest priority of a task that was ready
                \*          when this call began (0: none was, or no call)
    call_runs,  \* history: the routines this call has resumed
    starved,    \* history: the calls in a row, up to now, that began with a
                \*          task ready below the highest priority of a ready
                \*          task (counted to MaxCalls)
    alt_ok,     \* history: at the start of every call so far, the list held
                \*          one task above two tasks of equal priority, the
                \*          two were ready, and the one was not ready then
                \*          nor when polled; and no task was appended since
                \*          the first call
    n_calls,    \* history, kept while alt_ok: the completed calls (counted
                \*          to MaxCalls)
    odd_calls,  \* history, kept while alt_ok: that number is odd
    last_ran,   \* history, kept while alt_ok: the task the last completed
                \*          call resumed, or 0
    r_pc,       \* position of the main context inside rr_sched()
    r_grp,      \* rr_sched: the group the outer for loop is at (1 = first)
    r_idx,      \* rr_sched: the element of the group the inner for loop is
                \*          at, as a Python index (2 = the first task)
    r_seq,      \* history: the tasks whose schedule() the last call of
                \*          rr_sched() has called, in that order
    r_rdy,      \* history: those of them that were ready at that moment
    r_ran,      \* history: those of them whose routine it resumed
    r_done,     \* history: that call has returned
    t_task,     \* one Task object on its own: the fields Task_init gives it
    t_diag,     \* the profiling and trace fields of that Task, as a record
    t_now,      \* utime.ticks_us() as that task's code reads it
    t_start,    \* the value of the counter when the task was constructed
    t_pc,       \* position of the main context inside schedule()
    t_stime,    \* schedule: the local variable stime
    t_pos,      \* the position of the routine: the times it was resumed
    t_ret,      \* what the last schedule() call returned ("none": no call
                \*          has returned yet)
    t_last,     \* history: the step taken last
    t_resumes,  \* history: the times this schedule() call resumed the routine
    t_pending,  \* history: go() was called and the routine was not resumed
                \*          since
    t_d0,       \* history: the deadline the constructor set
    t_k,        \* history: the times ready() found the deadline passed
    t_ontime,   \* history: each of those times, less than a period late
    share_list, \* task_share.share_list: the objects BaseShare.__init__
                \*          appended, oldest first
    c_out,      \* how the last constructor call ended: "returned", or the
                \*          exception it raised ("none": no call yet)
    c_obj,      \* the object the last constructor call was building
    irq_on,     \* the interrupt-enable state pyb.disable_irq() and
                \*          pyb.enable_irq() act on
    m_protect,  \* _thread_protect of the Queue and of the Share
    m_pc,       \* position of the main context inside a put or get
    m_call,     \* the main-context call in progress or, between two
                \*          calls, the last one: object, method, argument
    m_irq_state,\* put, get: the local variable irq_state
    m_before,   \* history: irq_on when the call in progress began
    m_last,     \* history: the step taken last
    p_task,     \* one Task whose methods the program calls one after the
                \*          other: the fields Task_init gives it
    p_diag,     \* the profiling and trace fields of that Task
    p_now,      \* utime.ticks_us() as that task's code reads it
    p_start,    \* the value of the counter when the task was constructed
    p_out,      \* what the last schedule() call returned, or the exception
                \*          it raised ("none": no call yet)
    p_pos,      \* the position of the routine: the times it was resumed
    p_last,     \* history: the call made last
    p_pending,  \* history: go() was called and the routine was not resumed
                \*          since
    p_external, \* history: the task was constructed without a period or
                \*          set_period was called, and the last such call
                \*          was given None
    p_burst,    \* history: the resumptions since the counter last advanced
                \*          or go() or set_period() was last called
    p_late0,    \* history: the lateness the first ready() of those calls
                \*          found (0: none, or the deadline had not passed)
    p_durs,     \* history, kept while profiling: how long the resumptions
                \*          took, oldest first
    ql_queue,   \* a Queue whose put and get are followed line by line
    ql_protect, \* _thread_protect of that Queue
    ql_pc,      \* position of the main context inside put or get: the
                \*          line it is about to execute ("idle": between
                \*          two calls)
    ql_item,    \* put: the argument item; get: the local to_return
    ql_ans,     \* what any(), empty(), full() and num_in() returned when
                \*          they were last called, one after the other,
                \*          with the capacity (None: not called yet)
    ql_last,    \* history: the step taken last
    button_pressed, \* button_press.py: the global flag button_callback sets
    b_flag,     \* button_task: the parameter flag
    b_slp,      \* the level of the SLP pin of motorL and of motorR (TRUE:
                \*          high, the driver is enabled)
    b_pc,       \* position of button_task: the line it is about to execute
                \*          ("yield": suspended at line 66, or not started)
    b_flag0,    \* history: flag when button_task was last resumed
    b_slp0,     \* history: the SLP levels at that moment
    b_toggles,  \* history: the assignments to flag since that moment
    b_edges,    \* history: the times button_callback found button_pressed
                \*          False and set it (counted to MaxPresses)
    b_toggled,  \* history: the assignments to flag in all
    b_last,     \* history: the step taken last
    k_s,        \* t4.py, Track_1: the local variable s, the state
    k_pc,       \* where Track_1 is suspended: the line of the yield
                \*          ("start": not resumed yet; "raised": it ended
                \*          with a NameError)
    k_eff,      \* the effort last given to set_effort of motorL and motorR
    k_new,      \* Track_1: new_effort_left and new_effort_right, as a pair
                \*          (None: not assigned yet)
    k_pos,      \* Track_1: pos is not None
    k_blk,      \* history: the state whose block the last resumption ran
                \*          (0: none yet)
    k_bump,     \* history: that block read the accelerometer and found a
                \*          bump
    k_bump5     \* history: some resumption found a bump in state s5

qvars == <<queue, q_pc, q_item, q_last, fifo_phase, fifo_in, fifo_out,
          q_isr_seen, q_live>>

shvars == <<share, sh_ret, sh_last, sh_put, sh_prev, sh_gets>>

svars == <<now, task, pri_list, s_pc, s_grp, s_tries, s_length, s_cur0,
          s_rdy0, s_wait,
           s_polled,
          s_woken, s_rdy_pri, call_runs, starved, alt_ok, n_calls, odd_calls,
          last_ran>>

rvars == <<r_pc, r_grp, r_idx, r_seq, r_rdy, r_ran, r_done>>

tvars == <<t_task, t_diag, t_now, t_start, t_pc, t_stime, t_pos, t_ret,
          t_last, t_resumes, t_pending, t_d0, t_k, t_ontime>>

cvars == <<share_list, c_out, c_obj>>

mvars == <<irq_on, m_protect, m_pc, m_call, m_irq_state, m_before, m_last>>

pvars == <<p_task, p_diag, p_now, p_start, p_out, p_pos, p_last, p_pending,
          p_external, p_burst, p_late0, p_durs>>

lvars == <<ql_queue, ql_protect, ql_pc, ql_item, ql_ans, ql_last>>

bvars == <<button_pressed, b_flag, b_slp, b_pc, b_flag0, b_slp0, b_toggles,
          b_edges, b_toggled, b_last>>

kvars == <<k_s, k_pc, k_eff, k_new, k_pos, k_blk, k_bump, k_bump5>>

vars == <<qvars, shvars, svars, rvars, tvars, cvars, mvars, pvars, lvars,
         bvars, kvars>>

----------------------------------------------------------------------------
(* Bounds of the model.                                                    *)

\* Queues of capacity 1 .. MaxSize are constructed.
MaxSize == 3
\* The values handed to put are ValBase + 1 .. ValBase + NumVals.
NumVals == 2
\* An offset that keeps the values put apart from the values 0 .. size-1
\* the constructor fills the buffer with.
ValBase == 10

Vals == (ValBase + 1) .. (ValBase + NumVals)

\* The values handed to Share.put are 1 .. NumShareVals.
NumShareVals == 3
\* Consecutive gets are counted up to MaxGets.
MaxGets == 3

ShareVals == 1 .. NumShareVals

\* Tasks 1 .. NumTasks are constructed, with priorities 1 .. NumPri.
NumTasks == 3
NumPri == 2
\* A periodic task is constructed with a period of PeriodMs milliseconds.
PeriodMs == 1
\* The clock advances TickUs microseconds at a time, MaxTicks times at most.
TickUs == 1000
MaxTicks == 2
\* Completed pri_sched() calls are counted up to MaxCalls.
MaxCalls == 4

TaskIds == 1 .. NumTasks

\* Constructors are called with a size of MinCtorSize - 1 .. MaxCtorSize,
\* until share_list holds MaxObjects objects.
\* A task on its own is constructed StartBefore microseconds before the
\* counter reaches half its range or wraps to 0, or at 0.  Its clock
\* advances TickShort or TickLong microseconds at a time, MaxElapsed
\* microseconds in all, and its routine is resumed MaxResumes times at
\* most.  The routine yields the state codes 0 .. NumCodes - 1.
StartBefore == 1500
TickShort == 400
TickLong == 700
MaxElapsed == 2400
MaxResumes == 3
NumCodes == 2

\* Where only TaskList.append is exercised, the priorities are
\* 0 .. MaxListPri.
MaxListPri == 3

\* Where the calls on a task are made one after the other, the counter
\* advances LongWait microseconds (or TickLong, where the period is
\* changed) between two calls and 0, TickShort or TickLong microseconds
\* while the routine runs, MaxSeqElapsed microseconds in all; the routine
\* is resumed MaxSeqResumes times at most; set_period is given None or
\* NewPeriodMs.
LongWait == 3100
MaxSeqElapsed == 4500
MaxSeqResumes == 4
NewPeriodMs == 2

\* Where the interrupt mask is followed, the queue has a capacity of
\* 1 .. MaskMaxSize.
MaskMaxSize == 2

\* Where put and get are followed line by line, the queue has a capacity of
\* 1 .. LineMaxSize.
LineMaxSize == 2

\* The button interrupt sets the flag anew MaxPresses times at most.
MaxPresses == 8

\* The line follower: pid_1.update returns -MaxCorrection, 0 or
\* MaxCorrection, and the heading error of state s3 is 0 or AngleError.
MaxCorrection == 30
AngleError == 100

MinCtorSize == 0
MaxCtorSize == 2
MaxObjects == 3

----------------------------------------------------------------------------
(* task_share.py: class Queue                                              *)

\* Queue.__init__: the buffer is array.array(type_code, range(size)), then
\* clear() sets the indices, the occupancy and the high-water-mark to 0.
Queue_init(size, overwrite) ==
    [ size      |-> size,
      overwrite |-> overwrite,
      buffer    |-> [i \in 0 .. (size - 1) |-> i],
      rd_idx    |-> 0,
      wr_idx    |-> 0,
      num_items |-> 0,
      max_full  |-> 0 ]

\* Queue.empty
Queue_empty(q) == q.num_items <= 0

\* Queue.full
Queue_full(q) == q.num_items >= q.size

\* Queue.any
Queue_any(q) == q.num_items > 0

\* Queue.num_in
Queue_num_in(q) == q.num_items

\* A put whose write index does not wrap around: what lines 60-62 of
\* Queue.put guard against.
Queue_put_nowrap(q, item) ==
    LET n1 == q.num_items + 1
        n  == IF n1 >= q.size THEN q.size ELSE n1
    IN  [q EXCEPT !.buffer    = [i \in DOMAIN q.buffer |->
                                    IF i = q.wr_idx THEN item ELSE q.buffer[i]],
                  !.wr_idx    = q.wr_idx + 1,
                  !.num_items = n,
                  !.max_full  = IF n > q.max_full THEN n ELSE q.max_full]

\* A put that records the occupancy as the high-water-mark instead of
\* the maximum of line 67.
Queue_put_max_is_count(q, item) ==
    LET w1 == q.wr_idx + 1
        n1 == q.num_items + 1
        n  == IF n1 >= q.size THEN q.size ELSE n1
    IN  [q EXCEPT !.buffer    = [q.buffer EXCEPT ![q.wr_idx] = item],
                  !.wr_idx    = IF w1 >= q.size THEN 0 ELSE w1,
                  !.num_items = n,
                  !.max_full  = n]

\* Queue.put, lines 59-67: store at the write index, advance it with
\* wrap-around, count the item (clamped at the capacity), record the
\* high-water-mark.  The read index is not touched, also when the slot
\* written held the oldest unread item.
Queue_put_store(q, item) ==
    LET w1 == q.wr_idx + 1
        n1 == q.num_items + 1
        n  == IF n1 >= q.size THEN q.size ELSE n1
    IN  [q EXCEPT !.buffer    = [q.buffer EXCEPT ![q.wr_idx] = item],
                  !.wr_idx    = IF w1 >= q.size THEN 0 ELSE w1,
                  !.num_items = n,
                  !.max_full  = IF n > q.max_full THEN n ELSE q.max_full]

\* Queue.get, line 80: the value returned.
Queue_get_value(q) == q.buffer[q.rd_idx]

\* Queue.get, lines 82-87: advance the read index with wrap-around and
\* uncount the item (clamped at 0).
Queue_get_advance(q) ==
    LET r1 == q.rd_idx + 1
        n1 == q.num_items - 1
    IN  [q EXCEPT !.rd_idx    = IF r1 >= q.size THEN 0 ELSE r1,
                  !.num_items = IF n1 < 0 THEN 0 ELSE n1]

\* A clear without line 114: the high-water-mark survives.
Queue_clear_keep_max(q) ==
    [q EXCEPT !.rd_idx = 0, !.wr_idx = 0, !.num_items = 0]

\* A clear without line 112: the write index survives.
Queue_clear_keep_wr(q) ==
    [q EXCEPT !.rd_idx = 0, !.num_items = 0, !.max_full = 0]

\* Queue.clear, lines 110-114.
Queue_clear(q) ==
    [q EXCEPT !.rd_idx = 0, !.wr_idx = 0, !.num_items = 0, !.max_full = 0]

----------------------------------------------------------------------------
(* History of the calls, kept for the round-trip properties.  A           *)
(* main-context put that finds the queue empty starts a phase; the phase   *)
(* lasts while main-context puts (at most capacity + 1 of them) are        *)
(* followed by main-context gets (at most capacity of them) and no other   *)
(* call touches the queue.                                                 *)

FifoOff == /\ fifo_phase' = "off"
           /\ fifo_in' = << >>
           /\ fifo_out' = << >>

FifoPut(q, item) ==
    IF Queue_empty(q)
    THEN /\ fifo_phase' = "fill"
         /\ fifo_in' = << item >>
         /\ fifo_out' = << >>
    ELSE IF fifo_phase = "fill" /\ Len(fifo_in) <= q.size
         THEN /\ fifo_phase' = "fill"
              /\ fifo_in' = Append(fifo_in, item)
              /\ fifo_out' = << >>
         ELSE FifoOff

FifoGet(q, value) ==
    IF /\ fifo_phase \in {"fill", "drain"}
       /\ Len(fifo_in) >= q.size
       /\ Len(fifo_out) < q.size
    THEN /\ fifo_phase' = "drain"
         /\ fifo_in' = fifo_in
         /\ fifo_out' = Append(fifo_out, value)
    ELSE FifoOff

----------------------------------------------------------------------------
(* The Queue's operations as steps.                                        *)

\* Queue(type_code, size, overwrite = ..), for the capacities and settings
\* of the model.
QueueInitial ==
    /\ \E size \in 1 .. MaxSize, overwrite \in BOOLEAN :
          queue = Queue_init(size, overwrite)
    /\ q_pc = "idle"
    /\ q_item = 0
    /\ q_last = "init"
    /\ fifo_phase = "off"
    /\ fifo_in = << >>
    /\ fifo_out = << >>
    /\ q_isr_seen = FALSE
    /\ q_live = {}

\* put(item), main context, lines 48-54: the full() test.  A full queue
\* without overwrite sends the caller into the busy-wait of line 53.
MainPutCall(item) ==
    /\ q_pc = "idle"
    /\ q_pc' = IF Queue_full(queue) /\ ~queue.overwrite
               THEN "put_wait" ELSE "put_write"
    /\ q_item' = item
    /\ q_last' = "put_call"
    /\ UNCHANGED <<queue, fifo_phase, fifo_in, fifo_out, q_isr_seen, q_live>>
    /\ UNCHANGED <<shvars, svars, rvars, tvars, cvars, mvars, pvars, lvars,
                   bvars, kvars>>

\* put, line 53: the busy-wait ends when full() is false.
MainPutSpinExit ==
    /\ q_pc = "put_wait"
    /\ ~Queue_full(queue)
    /\ q_pc' = "put_write"
    /\ q_last' = "put_spin_exit"
    /\ UNCHANGED <<queue, q_item, fifo_phase, fifo_in, fifo_out, q_isr_seen,
                   q_live>>
    /\ UNCHANGED <<shvars, svars, rvars, tvars, cvars, mvars, pvars, lvars,
                   bvars, kvars>>

\* put, lines 56-70, main context: the write, and the return.  The write
\* is one step: the calls of a sequence do not overlap inside lines 59-67
\* (with thread_protect set, the interrupt mask of lines 56-57 and 69-70
\* sees to it).
MainPutWrite ==
    /\ q_pc = "put_write"
    /\ queue' = Queue_put_store(queue, q_item)
    /\ q_pc' = "idle"
    /\ q_item' = 0
    /\ q_last' = "put"
    /\ IF q_last \in {"put_call", "put_spin_exit"}
       THEN FifoPut(queue, q_item) ELSE FifoOff
    /\ q_live' = q_live \cup {queue.wr_idx}
    /\ UNCHANGED q_isr_seen
    /\ UNCHANGED <<shvars, svars, rvars, tvars, cvars, mvars, pvars, lvars,
                   bvars, kvars>>

\* get(), main context, lines 74-75: the empty() test and the busy-wait.
MainGetCall ==
    /\ q_pc = "idle"
    /\ q_pc' = IF Queue_empty(queue) THEN "get_wait" ELSE "get_read"
    /\ q_last' = "get_call"
    /\ UNCHANGED <<queue, q_item, fifo_phase, fifo_in, fifo_out, q_isr_seen,
                   q_live>>
    /\ UNCHANGED <<shvars, svars, rvars, tvars, cvars, mvars, pvars, lvars,
                   bvars, kvars>>

\* A busy-wait that gives up: get goes on to its read with the queue
\* still empty.
MainGetSpinExit_timeout ==
    /\ q_pc = "get_wait"
    /\ q_pc' = "get_read"
    /\ q_last' = "get_spin_exit"
    /\ UNCHANGED <<queue, q_item, fifo_phase, fifo_in, fifo_out, q_isr_seen,
                   q_live>>
    /\ UNCHANGED <<shvars, svars, rvars, tvars, cvars, mvars, pvars, lvars,
                   bvars, kvars>>

\* get, line 74: the busy-wait ends when empty() is false.
MainGetSpinExit ==
    /\ q_pc = "get_wait"
    /\ ~Queue_empty(queue)
    /\ q_pc' = "get_read"
    /\ q_last' = "get_spin_exit"
    /\ UNCHANGED <<queue, q_item, fifo_phase, fifo_in, fifo_out, q_isr_seen,
                   q_live>>
    /\ UNCHANGED <<shvars, svars, rvars, tvars, cvars, mvars, pvars, lvars,
                   bvars, kvars>>

\* get, lines 77-92, main context: the read, and the return, one step as
\* the write of put is.
MainGetRead ==
    /\ q_pc = "get_read"
    /\ queue' = Queue_get_advance(queue)
    /\ q_pc' = "idle"
    /\ q_last' = "get"
    /\ IF q_last \in {"get_call", "get_spin_exit"}
       THEN FifoGet(queue, Queue_get_value(queue)) ELSE FifoOff
    /\ q_live' = q_live \ {queue.rd_idx}
    /\ UNCHANGED <<q_item, q_isr_seen>>
    /\ UNCHANGED <<shvars, svars, rvars, tvars, cvars, mvars, pvars, lvars,
                   bvars, kvars>>

\* An interrupt handler runs while the main context is anywhere outside the
\* write of put and the read of get, unless an earlier handler never
\* returned.
IsrMayRun == q_pc # "isr_hung"

\* A handler's put without the return of lines 49-50: it stores on a full
\* queue too.
IsrPut_store_always(item) ==
    /\ IsrMayRun
    /\ queue' = Queue_put_store(queue, item)
    /\ q_last' = "isr_put"
    /\ q_live' = q_live \cup {queue.wr_idx}
    /\ FifoOff
    /\ q_isr_seen' = TRUE
    /\ UNCHANGED <<q_pc, q_item>>
    /\ UNCHANGED <<shvars, svars, rvars, tvars, cvars, mvars, pvars, lvars,
                   bvars, kvars>>

\* put(item, in_ISR = True), lines 48-50 and 59-67: on a full queue the
\* call returns at line 50, whatever the overwrite setting.
IsrPut(item) ==
    /\ IsrMayRun
    /\ IF Queue_full(queue)
       THEN /\ queue' = queue
            /\ q_last' = "isr_put_drop"
            /\ UNCHANGED q_live
       ELSE /\ queue' = Queue_put_store(queue, item)
            /\ q_last' = "isr_put"
            /\ q_live' = q_live \cup {queue.wr_idx}
    /\ FifoOff
    /\ q_isr_seen' = TRUE
    /\ UNCHANGED <<q_pc, q_item>>
    /\ UNCHANGED <<shvars, svars, rvars, tvars, cvars, mvars, pvars, lvars,
                   bvars, kvars>>

\* get(in_ISR = True), lines 74-92: on an empty queue the handler stays in
\* the busy-wait of line 74; nothing else runs from then on.
IsrGet ==
    /\ IsrMayRun
    /\ IF Queue_empty(queue)
       THEN /\ q_pc' = "isr_hung"
            /\ q_last' = "isr_get_hang"
            /\ UNCHANGED <<queue, q_live>>
       ELSE /\ queue' = Queue_get_advance(queue)
            /\ q_last' = "isr_get"
            /\ q_live' = q_live \ {queue.rd_idx}
            /\ UNCHANGED q_pc
    /\ FifoOff
    /\ q_isr_seen' = TRUE
    /\ UNCHANGED q_item
    /\ UNCHANGED <<shvars, svars, rvars, tvars, cvars, mvars, pvars, lvars,
                   bvars, kvars>>

\* clear(): from the main context between two calls, or from an interrupt
\* handler while a main-context call is in progress.
QueueClear ==
    /\ IsrMayRun
    /\ queue' = Queue_clear(queue)
    /\ q_last' = "clear"
    /\ FifoOff
    /\ q_live' = {}
    /\ q_isr_seen' = (q_isr_seen \/ q_pc # "idle")
    /\ UNCHANGED <<q_pc, q_item>>
    /\ UNCHANGED <<shvars, svars, rvars, tvars, cvars, mvars, pvars, lvars,
                   bvars, kvars>>


----------------------------------------------------------------------------
(* task_share.py: the constructors and share_list.  An object under        *)
(* construction is a record: its class, whether __init__ ran to its end,   *)
(* and, for a Queue whose __init__ did, the fields of the Queue.           *)

\* array.array(type_code, range(size)), line 36: ValueError for a type
\* code array does not know, MemoryError when the allocation fails;
\* otherwise an array of max(size, 0) elements, also for size <= 0, where
\* range(size) is empty.
Array_new(type_ok, mem_ok) ==
    IF ~type_ok THEN "ValueError"
    ELSE IF ~mem_ok THEN "MemoryError"
    ELSE "returned"

\* Queue.__init__, lines 28-44, after BaseShare.__init__ appended the object
\* to share_list (line 21): the outcome, and the object as it is left.
Queue_new(type_ok, size, overwrite, mem_ok) ==
    LET out == Array_new(type_ok, mem_ok)
    IN  [ out |-> out,
          obj |-> [ class    |-> "Queue",
                    complete |-> (out = "returned"),
                    queue    |-> IF out = "returned"
                                 THEN << Queue_init(size, overwrite) >>
                                 ELSE << >> ] ]

\* Share.__init__, lines 124-130: array.array(type_code, [0]) at line 126
\* is not inside a try; its exceptions propagate the same way.
Share_new(type_ok, mem_ok) ==
    LET out == Array_new(type_ok, mem_ok)
    IN  [ out |-> out,
          obj |-> [ class    |-> "Share",
                    complete |-> (out = "returned"),
                    queue    |-> << >> ] ]

\* BaseShare.__init__, line 21: share_list.append(self).
BaseShare_init(list, obj) == Append(list, obj)

CtorInitial ==
    /\ share_list = << >>
    /\ c_out = "none"
    /\ c_obj = << >>

\* Queue(type_code, size, overwrite = ..) is called: type_ok tells whether
\* array knows the type code, mem_ok whether the allocation succeeds.
QueueNew(type_ok, size, overwrite, mem_ok) ==
    /\ Len(share_list) < MaxObjects
    /\ LET r == Queue_new(type_ok, size, overwrite, mem_ok)
       IN  /\ share_list' = BaseShare_init(share_list, r.obj)
           /\ c_out' = r.out
           /\ c_obj' = << r.obj >>
    /\ UNCHANGED <<qvars, shvars, svars, rvars, tvars, mvars, pvars, lvars,
                   bvars, kvars>>

\* Share(type_code) is called.
ShareNew(type_ok, mem_ok) ==
    /\ Len(share_list) < MaxObjects
    /\ LET r == Share_new(type_ok, mem_ok)
       IN  /\ share_list' = BaseShare_init(share_list, r.obj)
           /\ c_out' = r.out
           /\ c_obj' = << r.obj >>
    /\ UNCHANGED <<qvars, shvars, svars, rvars, tvars, mvars, pvars, lvars,
                   bvars, kvars>>

CtorNext ==
    \/ \E type_ok \in BOOLEAN, size \in (MinCtorSize - 1) .. MaxCtorSize,
          overwrite \in BOOLEAN, mem_ok \in BOOLEAN :
             QueueNew(type_ok, size, overwrite, mem_ok)
    \/ \E type_ok \in BOOLEAN, mem_ok \in BOOLEAN : ShareNew(type_ok, mem_ok)

----------------------------------------------------------------------------
(* task_share.py: class Share                                              *)

\* Share.__init__: the buffer is array.array(type_code, [0]).
Share_init == [ buffer |-> 0 ]

\* A put that stores only into a share still holding its initial 0.
Share_put_if_unset(sh, data) ==
    IF sh.buffer = 0 THEN [sh EXCEPT !.buffer = data] ELSE sh

\* Share.put, line 137.
Share_put(sh, data) == [sh EXCEPT !.buffer = data]

\* Share.get, lines 147 and 152: the value returned, and the share as the
\* call leaves it.
Share_get(sh) == [value |-> sh.buffer, share |-> sh]

ShareInitial ==
    /\ share = Share_init
    /\ sh_ret = 0
    /\ sh_last = "init"
    /\ sh_put = 0
    /\ sh_prev = 0
    /\ sh_gets = 0

\* put(data) from the main context and put(data, in_ISR = True) from an
\* interrupt handler: the call takes effect at its one store, line 137; the
\* interrupt mask of lines 134-140 is around that store alone.
SharePut(data, in_ISR) ==
    /\ share' = Share_put(share, data)
    /\ sh_last' = IF in_ISR THEN "isr_put" ELSE "put"
    /\ sh_prev' = sh_put
    /\ sh_put' = data
    /\ sh_gets' = 0
    /\ UNCHANGED sh_ret
    /\ UNCHANGED <<qvars, svars, rvars, tvars, cvars, mvars, pvars, lvars,
                   bvars, kvars>>

\* get() and get(in_ISR = True): the call takes effect at its one load,
\* line 147.
ShareGet(in_ISR) ==
    /\ share' = Share_get(share).share
    /\ sh_ret' = Share_get(share).value
    /\ sh_last' = IF in_ISR THEN "isr_get" ELSE "get"
    /\ sh_gets' = IF sh_gets < MaxGets THEN sh_gets + 1 ELSE sh_gets
    /\ UNCHANGED <<sh_put, sh_prev>>
    /\ UNCHANGED <<qvars, svars, rvars, tvars, cvars, mvars, pvars, lvars,
                   bvars, kvars>>

ShareNext ==
    \/ \E data \in ShareVals, in_ISR \in BOOLEAN : SharePut(data, in_ISR)
    \/ \E in_ISR \in BOOLEAN : ShareGet(in_ISR)


----------------------------------------------------------------------------
(* cotask.py: class Task                                                   *)

\* Python's None, and a value that is not None.
None == << >>
Some(x) == << x >>

\* utime.ticks_us() counts modulo TICKS_PERIOD, and utime.ticks_diff(a, b)
\* is the difference a - b brought into -TICKS_PERIOD/2 .. TICKS_PERIOD/2 - 1.
TICKS_PERIOD == 1073741824

ticks_diff(a, b) ==
    ((a - b + TICKS_PERIOD \div 2) % TICKS_PERIOD) - TICKS_PERIOD \div 2

\* A task not constructed yet.
NoTask ==
    [ made |-> FALSE, priority |-> 0, period |-> None, next_run |-> None,
      go_flag |-> FALSE ]

\* Task.__init__, lines 18-25 and 39.  The period is given in milliseconds
\* and kept in microseconds; the first deadline is one period from now.
Task_init(priority, period, ticks_us) ==
    [ made     |-> TRUE,
      priority |-> priority,
      period   |-> IF period # None THEN Some(period[1] * 1000) ELSE None,
      next_run |-> IF period # None
                   THEN Some(ticks_us + period[1] * 1000) ELSE None,
      go_flag  |-> FALSE ]

\* A ready() that answers from the deadline alone and drops a go flag set
\* by go().
Task_ready_deadline_only(tk, ticks_us) ==
    IF tk.period # None /\ ticks_diff(ticks_us, tk.next_run[1]) > 0
    THEN [tk EXCEPT !.go_flag  = TRUE,
                    !.next_run = Some(ticks_diff(tk.period[1], - tk.next_run[1]))]
    ELSE [tk EXCEPT !.go_flag = FALSE]

\* A ready() that sets the next deadline one period from the time it is
\* evaluated at.
Task_ready_from_now(tk, ticks_us) ==
    IF tk.period # None /\ ticks_diff(ticks_us, tk.next_run[1]) > 0
    THEN [tk EXCEPT !.go_flag  = TRUE,
                    !.next_run = Some(ticks_diff(tk.period[1], - ticks_us))]
    ELSE tk

\* A ready() that compares the counter with the deadline by plain
\* subtraction.
Task_ready_no_wrap(tk, ticks_us) ==
    IF tk.period # None /\ ticks_us - tk.next_run[1] > 0
    THEN [tk EXCEPT !.go_flag  = TRUE,
                    !.next_run = Some(tk.period[1] + tk.next_run[1])]
    ELSE tk

\* Task.ready, lines 80-93: the task as ready() leaves it; what ready()
\* returns is the go_flag of that task.
Task_ready(tk, ticks_us) ==
    IF tk.period # None /\ ticks_diff(ticks_us, tk.next_run[1]) > 0
    THEN [tk EXCEPT !.go_flag  = TRUE,
                    !.next_run = Some(ticks_diff(tk.period[1], - tk.next_run[1]))]
    ELSE tk

\* A set_period that leaves the period as it is when given None.
Task_set_period_keep(tk, new_period) ==
    IF new_period = None THEN tk
    ELSE [tk EXCEPT !.period = Some(new_period[1] * 1000)]

\* Task.set_period, lines 94-98: the period is set; the deadline is not
\* touched.
Task_set_period(tk, new_period) ==
    [tk EXCEPT !.period = IF new_period = None THEN None
                          ELSE Some(new_period[1] * 1000)]

\* Task.ready, line 82: utime.ticks_diff(.., self._next_run) raises
\* TypeError when the task has a period and _next_run is None.
Task_ready_raises(tk) == tk.period # None /\ tk.next_run = None

\* A go() that also moves the deadline a task has on by one period.
Task_go_new_deadline(tk) ==
    [tk EXCEPT !.go_flag  = TRUE,
               !.next_run = IF tk.period # None /\ tk.next_run # None
                            THEN Some(ticks_diff(tk.period[1], - tk.next_run[1]))
                            ELSE @]

\* Task.go, line 120.
Task_go(tk) == [tk EXCEPT !.go_flag = TRUE]

\* Task.schedule, line 43.
Task_clear_go(tk) == [tk EXCEPT !.go_flag = FALSE]

\* Task.__init__, lines 28-35: the profiling and trace fields.
Diag_init(profile, trace, ticks_us) ==
    [ prof       |-> profile,
      runs       |-> 0,
      run_sum    |-> 0,
      slowest    |-> 0,
      late_sum   |-> 0,
      latest     |-> 0,
      prev_state |-> 0,
      trace      |-> trace,
      tr_data    |-> << >>,
      prev_time  |-> ticks_us ]

\* A lateness profile kept outside the test of line 83: also when the
\* deadline has not passed.
Task_ready_profile_always(dg, tk, ticks_us) ==
    IF tk.period # None /\ dg.prof
    THEN LET late == ticks_diff(ticks_us, tk.next_run[1])
         IN  [dg EXCEPT !.late_sum = @ + late,
                        !.latest   = IF late > @ THEN late ELSE @]
    ELSE dg

\* Task.ready, lines 88-92: the lateness profile, kept when ready() finds
\* the deadline of task tk passed.
Task_ready_profile(dg, tk, ticks_us) ==
    IF tk.period # None /\ ticks_diff(ticks_us, tk.next_run[1]) > 0 /\ dg.prof
    THEN LET late == ticks_diff(ticks_us, tk.next_run[1])
         IN  [dg EXCEPT !.late_sum = @ + late,
                        !.latest   = IF late > @ THEN late ELSE @]
    ELSE dg

\* A profile that discards the first sample only.
Task_profile_run_discard_one(dg, stime, etime) ==
    IF dg.prof
    THEN LET runs == dg.runs + 1
             runt == ticks_diff(etime, stime[1])
         IN  [dg EXCEPT !.runs    = runs,
                        !.run_sum = IF runs > 1 THEN @ + runt ELSE @,
                        !.slowest = IF runs > 1 /\ runt > @ THEN runt ELSE @]
    ELSE dg

\* Task.schedule, lines 54-60: the run-time profile after a resumption that
\* began at stime and ended at etime.
Task_profile_run(dg, stime, etime) ==
    IF dg.prof
    THEN LET runs == dg.runs + 1
             runt == ticks_diff(etime, stime[1])
         IN  [dg EXCEPT !.runs    = runs,
                        !.run_sum = IF runs > 2 THEN @ + runt ELSE @,
                        !.slowest = IF runs > 2 /\ runt > @ THEN runt ELSE @]
    ELSE dg

\* A trace that stays switched on when the append finds no memory.
Task_trace_run_stay_on(dg, etime, curr_state, mem_ok) ==
    IF dg.trace
    THEN LET entry == << ticks_diff(etime, dg.prev_time), curr_state >>
         IN  [dg EXCEPT !.tr_data    = IF curr_state # dg.prev_state /\ mem_ok
                                       THEN Append(@, entry) ELSE @,
                        !.prev_state = curr_state,
                        !.prev_time  = etime]
    ELSE dg

\* A trace that logs every resumption.
Task_trace_run_every(dg, etime, curr_state, mem_ok) ==
    IF dg.trace
    THEN LET entry == << ticks_diff(etime, dg.prev_time), curr_state >>
         IN  [dg EXCEPT !.tr_data    = IF mem_ok THEN Append(@, entry) ELSE @,
                        !.trace      = mem_ok,
                        !.prev_state = curr_state,
                        !.prev_time  = etime]
    ELSE dg

\* Task.schedule, lines 61-72: the trace after a resumption in which the
\* routine yielded curr_state; mem_ok tells whether the append of line 64
\* finds memory.
Task_trace_run(dg, etime, curr_state, mem_ok) ==
    IF dg.trace
    THEN LET entry == << ticks_diff(etime, dg.prev_time), curr_state >>
         IN  [dg EXCEPT !.tr_data    = IF curr_state # dg.prev_state /\ mem_ok
                                       THEN Append(@, entry) ELSE @,
                        !.trace      = (curr_state = dg.prev_state \/ mem_ok),
                        !.prev_state = curr_state,
                        !.prev_time  = etime]
    ELSE dg

\* A schedule() that clears the go flag after the routine has run.
Task_after_run_clear_go(tk) == [tk EXCEPT !.go_flag = FALSE]

\* Task.schedule, lines 50-74: the fields of Task_init after the routine
\* has run: none of them changes.
Task_after_run(tk) == tk

\* Whether a task is ready: its go flag is set or its deadline has passed.
IsReady(t) ==
    \/ task[t].go_flag
    \/ /\ task[t].period # None
       /\ ticks_diff(now, task[t].next_run[1]) > 0

----------------------------------------------------------------------------
(* cotask.py: class TaskList.  A group is the Python list                  *)
(* [priority, cursor, task, task, ..]: element k of the Python list is     *)
(* element k + 1 of the sequence here, and the cursor keeps its Python     *)
(* value (2 designates the first task).                                    *)

At(pri, k) == pri[k + 1]

GroupTasks(pri) == { pri[k] : k \in 3 .. Len(pri) }

Registered == UNION { GroupTasks(pri_list[g]) : g \in 1 .. Len(pri_list) }

\* list.sort(key = lambda pri: pri[0], reverse = True), line 153: the groups
\* by descending priority (no two groups have the same priority).
RECURSIVE SortDescending(_)
SortDescending(groups) ==
    IF groups = {} THEN << >>
    ELSE LET first == CHOOSE g \in groups :
                          \A h \in groups \ {g} : g[1] > h[1]
         IN  << first >> \o SortDescending(groups \ {first})

RECURSIVE SortAscending(_)
SortAscending(groups) ==
    IF groups = {} THEN << >>
    ELSE LET first == CHOOSE g \in groups :
                          \A h \in groups \ {g} : g[1] < h[1]
         IN  << first >> \o SortAscending(groups \ {first})

SeqRange(seq) == { seq[i] : i \in 1 .. Len(seq) }

\* An append that sorts the groups the other way round.
TaskList_append_unsorted_low(pl, t, new_pri) ==
    IF \E g \in 1 .. Len(pl) : pl[g][1] = new_pri
    THEN [g \in 1 .. Len(pl) |->
             IF pl[g][1] = new_pri THEN Append(pl[g], t) ELSE pl[g]]
    ELSE SortAscending(SeqRange(pl) \cup { << new_pri, 2, t >> })

\* An append without the search of lines 144-148: every task opens a group.
TaskList_append_new_group(pl, t, new_pri) ==
    LET high == SelectSeq(pl, LAMBDA g : g[1] >= new_pri)
        low  == SelectSeq(pl, LAMBDA g : g[1] < new_pri)
    IN  high \o << << new_pri, 2, t >> >> \o low

\* TaskList.append, lines 141-153.
TaskList_append(pl, t, new_pri) ==
    IF \E g \in 1 .. Len(pl) : pl[g][1] = new_pri
    THEN [g \in 1 .. Len(pl) |->
             IF pl[g][1] = new_pri THEN Append(pl[g], t) ELSE pl[g]]
    ELSE SortDescending(SeqRange(pl) \cup { << new_pri, 2, t >> })

\* A cursor that moves on without going back to 2 past the end.
Cursor_advance_no_wrap(pri, length) == [pri EXCEPT ![2] = pri[2] + 1]

\* A cursor that moves on by two elements.
Cursor_advance_by_two(pri, length) ==
    [pri EXCEPT ![2] = IF pri[2] + 2 >= length THEN 2 ELSE pri[2] + 2]

\* A cursor that never moves.
Cursor_stay(pri, length) == pri

\* pri_sched, lines 169-171: the cursor moves on, back to 2 past the end.
Cursor_advance(pri, length) ==
    [pri EXCEPT ![2] = IF pri[2] + 1 >= length THEN 2 ELSE pri[2] + 1]

\* A pri_sched that leaves a group one attempt before the last.
After_attempt_skip_last(pl, grp, tries, length, ran) ==
    IF ran
    THEN [pc |-> "idle", grp |-> 0, tries |-> 0, length |-> 0]
    ELSE IF tries + 1 < length
         THEN [pc |-> "poll", grp |-> grp, tries |-> tries, length |-> length]
         ELSE IF grp < Len(pl)
              THEN [pc |-> "poll", grp |-> grp + 1, tries |-> 2,
                    length |-> Len(pl[grp + 1])]
              ELSE [pc |-> "idle", grp |-> 0, tries |-> 0, length |-> 0]

\* A pri_sched without the return of lines 172-173.
After_attempt_no_return(pl, grp, tries, length, ran) ==
    IF tries < length
    THEN [pc |-> "poll", grp |-> grp, tries |-> tries, length |-> length]
    ELSE IF grp < Len(pl)
         THEN [pc |-> "poll", grp |-> grp + 1, tries |-> 2,
               length |-> Len(pl[grp + 1])]
         ELSE [pc |-> "idle", grp |-> 0, tries |-> 0, length |-> 0]

\* pri_sched, lines 163-173: where the call goes after an attempt on group
\* grp that ran a task or not: it returns, tries the next task of the
\* group, enters the next group, or falls off the end of the for loop.
After_attempt(pl, grp, tries, length, ran) ==
    IF ran
    THEN [pc |-> "idle", grp |-> 0, tries |-> 0, length |-> 0]
    ELSE IF tries < length
         THEN [pc |-> "poll", grp |-> grp, tries |-> tries, length |-> length]
         ELSE IF grp < Len(pl)
              THEN [pc |-> "poll", grp |-> grp + 1, tries |-> 2,
                    length |-> Len(pl[grp + 1])]
              ELSE [pc |-> "idle", grp |-> 0, tries |-> 0, length |-> 0]

\* A sweep that leaves a group after its first task.
Rr_next_one_per_group(pl, grp, idx) ==
    IF grp < Len(pl)
    THEN [pc |-> "poll", grp |-> grp + 1, idx |-> 2]
    ELSE [pc |-> "idle", grp |-> 0, idx |-> 0]

\* rr_sched, lines 157-158: where the for loops go after element idx of
\* group grp: to the next task of pri[2:], to the first task of the next
\* group, or to the end of the call.
Rr_next(pl, grp, idx) ==
    IF idx + 1 < Len(pl[grp])
    THEN [pc |-> "poll", grp |-> grp, idx |-> idx + 1]
    ELSE IF grp < Len(pl)
         THEN [pc |-> "poll", grp |-> grp + 1, idx |-> 2]
         ELSE [pc |-> "idle", grp |-> 0, idx |-> 0]

\* The task the inner loop of rr_sched is at.
RrCurrent == At(pri_list[r_grp], r_idx)

\* The task the attempt in progress is on: pri[pri[1]], line 167.
Current == At(pri_list[s_grp], pri_list[s_grp][2])

----------------------------------------------------------------------------
(* The scheduler's operations as steps.                                    *)

SchedInitial ==
    /\ now = 0
    /\ task = [t \in TaskIds |-> NoTask]
    /\ pri_list = << >>
    /\ s_pc = "idle"
    /\ s_grp = 0
    /\ s_tries = 0
    /\ s_length = 0
    /\ s_cur0 = << >>
    /\ s_rdy0 = {}
    /\ s_wait = [t \in TaskIds |-> 0]
    /\ s_polled = {}
    /\ s_woken = {}
    /\ s_rdy_pri = 0
    /\ call_runs = 0
    /\ starved = 0
    /\ alt_ok = TRUE
    /\ n_calls = 0
    /\ odd_calls = FALSE
    /\ last_ran = 0
    /\ r_pc = "idle"
    /\ r_grp = 0
    /\ r_idx = 0
    /\ r_seq = << >>
    /\ r_rdy = {}
    /\ r_ran = {}
    /\ r_done = FALSE

\* The premise of strict alternation, at the start of a call: the list is
\* one task H above two tasks A and B of equal priority, A and B are ready
\* and H is not.
AltShape ==
    /\ Len(pri_list) = 2
    /\ Len(pri_list[1]) = 3
    /\ Len(pri_list[2]) = 4

AltPremise ==
    /\ AltShape
    /\ ~IsReady(At(pri_list[1], 2))
    /\ IsReady(At(pri_list[2], 2))
    /\ IsReady(At(pri_list[2], 3))

\* The highest priority of a ready task (0: no task is ready).
ReadyPri ==
    LET ps == { task[t].priority : t \in { u \in Registered : IsReady(u) } }
    IN  IF ps = {} THEN 0 ELSE CHOOSE p \in ps : \A r \in ps : r <= p

\* A task is ready below the highest priority of a ready task.
PassedOver ==
    \E t \in Registered : IsReady(t) /\ task[t].priority < ReadyPri

\* A call of pri_sched() ends, having resumed task ran (0: none); ok is
\* alt_ok as the step leaves it.
Return(ran, ok) ==
    /\ last_ran' = IF ok THEN ran ELSE 0
    /\ n_calls' = IF ~ok THEN 0
                  ELSE IF n_calls < MaxCalls THEN n_calls + 1 ELSE n_calls
    /\ odd_calls' = (ok /\ ~odd_calls)
    /\ s_cur0' = << >>
    /\ s_rdy0' = {}
    /\ s_wait' = [t \in TaskIds |->
                     IF /\ t \in s_rdy0
                        /\ t # ran
                        /\ ran # 0 => task[ran].priority <= task[t].priority
                     THEN IF s_wait[t] < MaxCalls THEN s_wait[t] + 1
                                                 ELSE s_wait[t]
                     ELSE 0]
    /\ s_polled' = {}
    /\ s_woken' = {}
    /\ s_rdy_pri' = 0

\* The call goes on.
NoReturn(ok) ==
    /\ last_ran' = IF ok THEN last_ran ELSE 0
    /\ n_calls' = IF ok THEN n_calls ELSE 0
    /\ odd_calls' = (ok /\ odd_calls)

\* The local variables of pri_sched take the values of record pos.
Goto(pos) ==
    /\ s_pc' = pos.pc
    /\ s_grp' = pos.grp
    /\ s_tries' = pos.tries
    /\ s_length' = pos.length

\* Task(..) followed by task_list.append(task), between two pri_sched()
\* calls: the tasks are constructed in the order of their numbers.
NewTask(t, priority, period) ==
    /\ s_pc = "idle"
    /\ r_pc = "idle"
    /\ ~task[t].made
    /\ \A u \in TaskIds : u < t => task[u].made
    /\ task' = [task EXCEPT ![t] = Task_init(priority, period, now)]
    /\ pri_list' = TaskList_append(pri_list, t, priority)
    /\ alt_ok' = (alt_ok /\ n_calls = 0)
    /\ NoReturn(alt_ok')
    /\ r_seq' = << >>
    /\ r_rdy' = {}
    /\ r_ran' = {}
    /\ r_done' = FALSE
    /\ s_wait' = [u \in TaskIds |-> 0]
    /\ UNCHANGED <<now, s_pc, s_grp, s_tries, s_length, s_cur0, s_rdy0,
                   s_polled, s_woken,
                   s_rdy_pri, call_runs, starved, r_pc, r_grp, r_idx>>
    /\ UNCHANGED <<qvars, shvars, tvars, cvars, mvars, pvars, lvars, bvars,
                   kvars>>

\* The clock advances.
Tick ==
    /\ now < TickUs * MaxTicks
    /\ now' = (now + TickUs) % TICKS_PERIOD
    /\ s_woken' = s_woken \cup { t \in s_polled : task[t].period # None }
    /\ UNCHANGED <<task, pri_list, s_pc, s_grp, s_tries, s_length,
                   s_cur0, s_rdy0, s_wait,
                   s_polled,
                   s_rdy_pri, call_runs, starved, alt_ok, n_calls, odd_calls,
                   last_ran>>
    /\ UNCHANGED <<qvars, shvars, rvars, tvars, cvars, mvars, pvars, lvars,
                   bvars, kvars>>

\* An interrupt handler calls go() on a task.
IsrGo(t) ==
    /\ task[t].made
    /\ task' = [task EXCEPT ![t] = Task_go(task[t])]
    /\ s_woken' = s_woken \cup ({t} \cap s_polled)
    /\ UNCHANGED <<now, pri_list, s_pc, s_grp, s_tries, s_length,
                   s_cur0, s_rdy0, s_wait,
                   s_polled,
                   s_rdy_pri, call_runs, starved, alt_ok, n_calls, odd_calls,
                   last_ran>>
    /\ UNCHANGED <<qvars, shvars, rvars, tvars, cvars, mvars, pvars, lvars,
                   bvars, kvars>>

\* pri_sched() is called, lines 163-166: the for loop enters the first
\* group, if there is one.
PriSchedCall ==
    /\ s_pc = "idle"
    /\ r_pc = "idle"
    /\ call_runs' = 0
    /\ starved' = IF ~PassedOver THEN 0
                  ELSE IF starved < MaxCalls THEN starved + 1 ELSE starved
    /\ alt_ok' = (alt_ok /\ AltPremise)
    /\ IF Len(pri_list) = 0
       THEN /\ Return(0, alt_ok')
            /\ UNCHANGED <<s_pc, s_grp, s_tries, s_length>>
       ELSE /\ Goto([pc |-> "poll", grp |-> 1, tries |-> 2,
                     length |-> Len(pri_list[1])])
            /\ NoReturn(alt_ok')
            /\ s_cur0' = [g \in 1 .. Len(pri_list) |-> pri_list[g][2]]
            /\ s_rdy0' = { t \in Registered : IsReady(t) }
            /\ UNCHANGED s_wait
            /\ s_polled' = {}
            /\ s_woken' = {}
            /\ s_rdy_pri' = ReadyPri
    /\ UNCHANGED <<now, task, pri_list>>
    /\ UNCHANGED <<qvars, shvars, rvars, tvars, cvars, mvars, pvars, lvars,
                   bvars, kvars>>

\* pri[pri[1]].schedule() up to line 42: ready() is evaluated.  A task that
\* is not ready makes schedule() return False, and lines 168-173 follow.
Poll ==
    /\ s_pc = "poll"
    /\ LET t  == Current
           tk == Task_ready(task[t], now)
       IN  /\ task' = [task EXCEPT ![t] = tk]
           /\ IF tk.go_flag
              THEN /\ s_pc' = "clear"
                   /\ alt_ok' = (alt_ok /\ s_grp # 1)
                   /\ NoReturn(alt_ok')
                   /\ UNCHANGED <<pri_list, s_grp, s_tries, s_length,
                                  s_cur0, s_rdy0, s_wait,
                                  s_polled,
                                  s_woken, s_rdy_pri>>
              ELSE LET pos == After_attempt(pri_list, s_grp, s_tries + 1,
                                            s_length, FALSE)
                   IN  /\ pri_list' = [pri_list EXCEPT ![s_grp] =
                                          Cursor_advance(pri_list[s_grp], s_length)]
                       /\ Goto(pos)
                       /\ UNCHANGED alt_ok
                       /\ IF pos.pc = "idle"
                          THEN Return(0, alt_ok)
                          ELSE /\ s_polled' = s_polled \cup {t}
                               /\ s_woken' = s_woken \ {t}
                               /\ UNCHANGED <<s_cur0, s_rdy0, s_wait,
                                              s_rdy_pri, last_ran,
                                              n_calls, odd_calls>>
    /\ UNCHANGED <<now, call_runs, starved>>
    /\ UNCHANGED <<qvars, shvars, rvars, tvars, cvars, mvars, pvars, lvars,
                   bvars, kvars>>

\* schedule(), line 43: the go flag is cleared.
ClearGo ==
    /\ s_pc = "clear"
    /\ task' = [task EXCEPT ![Current] = Task_clear_go(task[Current])]
    /\ s_pc' = "run"
    /\ UNCHANGED <<now, pri_list, s_grp, s_tries, s_length,
                   s_cur0, s_rdy0, s_wait,
                   s_polled, s_woken,
                   s_rdy_pri, call_runs, starved, alt_ok, n_calls, odd_calls,
                   last_ran>>
    /\ UNCHANGED <<qvars, shvars, rvars, tvars, cvars, mvars, pvars, lvars,
                   bvars, kvars>>

\* schedule(), lines 48 and 74: the routine is resumed and runs to its next
\* yield, schedule() returns True, and lines 168-173 follow.
Run ==
    /\ s_pc = "run"
    /\ LET t   == Current
           pos == After_attempt(pri_list, s_grp, s_tries + 1, s_length, TRUE)
       IN  /\ call_runs' = call_runs + 1
           /\ pri_list' = [pri_list EXCEPT ![s_grp] =
                              Cursor_advance(pri_list[s_grp], s_length)]
           /\ Goto(pos)
           /\ IF pos.pc = "idle"
              THEN Return(t, alt_ok)
              ELSE UNCHANGED <<s_cur0, s_rdy0, s_wait, s_polled, s_woken,
                               s_rdy_pri, last_ran,
                               n_calls, odd_calls>>
    /\ UNCHANGED <<now, task, starved, alt_ok>>
    /\ UNCHANGED <<qvars, shvars, rvars, tvars, cvars, mvars, pvars, lvars,
                   bvars, kvars>>

\* The loop variables of rr_sched take the values of record pos.
RrGoto(pos) ==
    /\ r_pc' = pos.pc
    /\ r_grp' = pos.grp
    /\ r_idx' = pos.idx
    /\ r_done' = (pos.pc = "idle")

\* rr_sched() is called, lines 157-158: the loops enter the first group, if
\* there is one.
RrSchedCall ==
    /\ r_pc = "idle"
    /\ s_pc = "idle"
    /\ IF Len(pri_list) = 0
       THEN RrGoto([pc |-> "idle", grp |-> 0, idx |-> 0])
       ELSE RrGoto([pc |-> "poll", grp |-> 1, idx |-> 2])
    /\ r_seq' = << >>
    /\ r_rdy' = {}
    /\ r_ran' = {}
    /\ UNCHANGED svars
    /\ UNCHANGED <<qvars, shvars, tvars, cvars, mvars, pvars, lvars, bvars,
                   kvars>>

\* task.schedule(), line 159, up to line 42: ready() is evaluated.  A task
\* that is not ready makes schedule() return False, and the loops go on.
RrPoll ==
    /\ r_pc = "poll"
    /\ LET t  == RrCurrent
           tk == Task_ready(task[t], now)
       IN  /\ task' = [task EXCEPT ![t] = tk]
           /\ r_seq' = Append(r_seq, t)
           /\ r_rdy' = IF IsReady(t) THEN r_rdy \cup {t} ELSE r_rdy
           /\ IF tk.go_flag
              THEN /\ r_pc' = "clear"
                   /\ UNCHANGED <<r_grp, r_idx, r_done>>
              ELSE RrGoto(Rr_next(pri_list, r_grp, r_idx))
    /\ UNCHANGED r_ran
    /\ UNCHANGED <<now, pri_list, s_pc, s_grp, s_tries, s_length,
                   s_cur0, s_rdy0, s_wait,
                   s_polled,
                   s_woken, s_rdy_pri, call_runs, starved, alt_ok, n_calls,
                   odd_calls, last_ran>>
    /\ UNCHANGED <<qvars, shvars, tvars, cvars, mvars, pvars, lvars, bvars,
                   kvars>>

\* schedule(), line 43, in rr_sched: the go flag is cleared.
RrClearGo ==
    /\ r_pc = "clear"
    /\ task' = [task EXCEPT ![RrCurrent] = Task_clear_go(task[RrCurrent])]
    /\ r_pc' = "run"
    /\ UNCHANGED <<r_grp, r_idx, r_seq, r_rdy, r_ran, r_done>>
    /\ UNCHANGED <<now, pri_list, s_pc, s_grp, s_tries, s_length,
                   s_cur0, s_rdy0, s_wait,
                   s_polled,
                   s_woken, s_rdy_pri, call_runs, starved, alt_ok, n_calls,
                   odd_calls, last_ran>>
    /\ UNCHANGED <<qvars, shvars, tvars, cvars, mvars, pvars, lvars, bvars,
                   kvars>>

\* schedule(), lines 48 and 74, in rr_sched: the routine is resumed and runs
\* to its next yield, schedule() returns True, and the loops go on.
RrRun ==
    /\ r_pc = "run"
    /\ r_ran' = r_ran \cup {RrCurrent}
    /\ RrGoto(Rr_next(pri_list, r_grp, r_idx))
    /\ UNCHANGED <<r_seq, r_rdy>>
    /\ UNCHANGED svars
    /\ UNCHANGED <<qvars, shvars, tvars, cvars, mvars, pvars, lvars, bvars,
                   kvars>>

RrNext ==
    \/ \E t \in TaskIds, priority \in 1 .. NumPri,
          period \in {None, Some(PeriodMs)} : NewTask(t, priority, period)
    \/ Tick
    \/ \E t \in TaskIds : IsrGo(t)
    \/ RrSchedCall
    \/ RrPoll
    \/ RrClearGo
    \/ RrRun

----------------------------------------------------------------------------
(* task_share.py: the interrupt mask around the body of put and get.       *)

\* The objects and methods the mask is followed for.
MaskObjects == {"Queue", "Share"}

\* Lines 56, 69, 77, 89, 134, 139, 144, 149: the test that decides whether
\* a call masks the interrupts.
Masks(thread_protect, in_ISR) == thread_protect /\ ~in_ISR

\* pyb.disable_irq(), lines 57, 78, 135, 145: the interrupts are disabled,
\* and the state they were in is returned.
Irq_disable(irq) == [ irq |-> FALSE, state |-> irq ]

\* A call that enables the interrupts when it is done, whatever state it
\* found them in.
Irq_restore_enable(state) == TRUE

\* pyb.enable_irq(irq_state), lines 70, 90, 140, 150: the interrupts are put
\* back into the state given.
Irq_restore(state) == state

\* Whether a call has to wait before its body: put on a full queue without
\* overwrite (lines 48-54), get on an empty queue (lines 74-75).
Call_waits(q, call) ==
    /\ call.obj = "Queue"
    /\ \/ call.op = "put" /\ Queue_full(q) /\ ~q.overwrite
       \/ call.op = "get" /\ Queue_empty(q)

\* The body of a call: lines 59-67, 80-87, 137, 147.
Body_queue(q, call) ==
    IF call.obj # "Queue" THEN q
    ELSE IF call.op = "put" THEN Queue_put_store(q, call.item)
         ELSE Queue_get_advance(q)

Body_share(sh, call) ==
    IF call.obj # "Share" THEN sh
    ELSE IF call.op = "put" THEN Share_put(sh, call.item)
         ELSE Share_get(sh).share

MaskInitial ==
    /\ irq_on = TRUE
    /\ m_protect \in [MaskObjects -> BOOLEAN]
    /\ m_pc = "idle"
    /\ m_call = None
    /\ m_irq_state = None
    /\ m_before = TRUE
    /\ m_last = "init"

\* The embedding program disables or enables the interrupts itself, between
\* two calls.
ProgramIrq(state) ==
    /\ m_pc = "idle"
    /\ irq_on # state
    /\ irq_on' = state
    /\ m_last' = "program"
    /\ UNCHANGED <<m_protect, m_pc, m_call, m_irq_state, m_before>>
    /\ UNCHANGED <<qvars, shvars, svars, rvars, tvars, cvars, pvars, lvars,
                   bvars, kvars>>

\* obj.put(item) or obj.get() is called from the main context: the test of
\* lines 48-52 or 74 for a Queue, nothing for a Share.
MaskCall(obj, op, item) ==
    /\ m_pc = "idle"
    /\ LET call == [obj |-> obj, op |-> op, item |-> item]
       IN  /\ m_call' = Some(call)
           /\ m_pc' = IF Call_waits(queue, call) THEN "wait" ELSE "mask"
    /\ m_before' = irq_on
    /\ m_last' = "call"
    /\ UNCHANGED <<irq_on, m_protect, m_irq_state>>
    /\ UNCHANGED <<qvars, shvars, svars, rvars, tvars, cvars, pvars, lvars,
                   bvars, kvars>>

\* Lines 53-54 and 74-75: the busy-wait ends.
MaskSpinExit ==
    /\ m_pc = "wait"
    /\ ~Call_waits(queue, m_call[1])
    /\ m_pc' = "mask"
    /\ m_last' = "spin_exit"
    /\ UNCHANGED <<irq_on, m_protect, m_call, m_irq_state, m_before>>
    /\ UNCHANGED <<qvars, shvars, svars, rvars, tvars, cvars, pvars, lvars,
                   bvars, kvars>>

\* Lines 56-57, 77-78, 134-135, 144-145: the interrupts are disabled if
\* the object is thread-protected.
MaskDisable ==
    /\ m_pc = "mask"
    /\ IF Masks(m_protect[m_call[1].obj], FALSE)
       THEN /\ irq_on' = Irq_disable(irq_on).irq
            /\ m_irq_state' = Some(Irq_disable(irq_on).state)
       ELSE UNCHANGED <<irq_on, m_irq_state>>
    /\ m_pc' = "body"
    /\ m_last' = "mask"
    /\ UNCHANGED <<m_protect, m_call, m_before>>
    /\ UNCHANGED <<qvars, shvars, svars, rvars, tvars, cvars, pvars, lvars,
                   bvars, kvars>>

\* Lines 59-67, 80-87, 137, 147: the buffer and the indices are accessed.
MaskBody ==
    /\ m_pc = "body"
    /\ queue' = Body_queue(queue, m_call[1])
    /\ share' = Body_share(share, m_call[1])
    /\ m_pc' = "unmask"
    /\ m_last' = "body"
    /\ UNCHANGED <<irq_on, m_protect, m_call, m_irq_state, m_before>>
    /\ UNCHANGED <<q_pc, q_item, q_last, fifo_phase, fifo_in, fifo_out,
                   q_isr_seen, q_live>>
    /\ UNCHANGED <<sh_ret, sh_last, sh_put, sh_prev, sh_gets>>
    /\ UNCHANGED <<svars, rvars, tvars, cvars, pvars, lvars, bvars, kvars>>

\* Lines 69-70, 89-92, 139-140, 149-152: the interrupts are put back if
\* they were disabled by the call, and the call returns.
MaskReturn ==
    /\ m_pc = "unmask"
    /\ IF Masks(m_protect[m_call[1].obj], FALSE)
       THEN irq_on' = Irq_restore(m_irq_state[1])
       ELSE UNCHANGED irq_on
    /\ m_irq_state' = None
    /\ m_pc' = "idle"
    /\ m_last' = "return"
    /\ UNCHANGED <<m_protect, m_call, m_before>>
    /\ UNCHANGED <<qvars, shvars, svars, rvars, tvars, cvars, pvars, lvars,
                   bvars, kvars>>

\* An interrupt handler calls obj.put(item, in_ISR = True) or
\* obj.get(in_ISR = True) while the interrupts are enabled, and runs to its
\* end: a put on a full queue returns at line 50, a get on an empty queue
\* stays in the busy-wait of line 74.
MaskIsrCall(obj, op, item) ==
    /\ irq_on
    /\ m_pc # "isr_hung"
    /\ LET call  == [obj |-> obj, op |-> op, item |-> item]
           drops == obj = "Queue" /\ op = "put" /\ Queue_full(queue)
           hangs == obj = "Queue" /\ op = "get" /\ Queue_empty(queue)
       IN  /\ queue' = IF drops \/ hangs THEN queue
                       ELSE Body_queue(queue, call)
           /\ share' = Body_share(share, call)
           /\ m_pc' = IF hangs THEN "isr_hung" ELSE m_pc
           /\ irq_on' = IF Masks(m_protect[obj], TRUE) /\ ~drops /\ ~hangs
                        THEN Irq_restore(Irq_disable(irq_on).state)
                        ELSE irq_on
    /\ m_last' = "isr"
    /\ UNCHANGED <<m_protect, m_call, m_irq_state, m_before>>
    /\ UNCHANGED <<q_pc, q_item, q_last, fifo_phase, fifo_in, fifo_out,
                   q_isr_seen, q_live>>
    /\ UNCHANGED <<sh_ret, sh_last, sh_put, sh_prev, sh_gets>>
    /\ UNCHANGED <<svars, rvars, tvars, cvars, pvars, lvars, bvars, kvars>>

MaskNext ==
    \/ \E state \in BOOLEAN : ProgramIrq(state)
    \/ \E item \in Vals : MaskCall("Queue", "put", item)
    \/ \E item \in ShareVals : MaskCall("Share", "put", item)
    \/ \E obj \in MaskObjects : MaskCall(obj, "get", 0)
    \/ MaskSpinExit
    \/ MaskDisable
    \/ MaskBody
    \/ MaskReturn
    \/ \E item \in Vals : MaskIsrCall("Queue", "put", item)
    \/ \E item \in ShareVals : MaskIsrCall("Share", "put", item)
    \/ \E obj \in MaskObjects : MaskIsrCall(obj, "get", 0)

----------------------------------------------------------------------------
(* One Task's operations as steps.                                         *)

\* One Task on its own, with or without a period, profiling and tracing.
TaskInitial ==
    /\ \E period \in {None, Some(PeriodMs)}, profile \in BOOLEAN,
          trace \in BOOLEAN,
          start \in {0, TICKS_PERIOD \div 2 - StartBefore,
                       TICKS_PERIOD - StartBefore} :
          /\ t_start = start
          /\ t_task = Task_init(1, period, start)
          /\ t_diag = Diag_init(profile, trace, start)
    /\ t_now = t_start
    /\ t_pc = "idle"
    /\ t_stime = None
    /\ t_pos = 0
    /\ t_ret = "none"
    /\ t_last = "init"
    /\ t_resumes = 0
    /\ t_pending = FALSE
    /\ t_d0 = t_task.next_run
    /\ t_k = 0
    /\ t_ontime = TRUE

\* The counter advances by d microseconds.
TTick(d) ==
    /\ ticks_diff(t_now, t_start) + d <= MaxElapsed
    /\ t_now' = (t_now + d) % TICKS_PERIOD
    /\ UNCHANGED <<t_task, t_diag, t_start, t_pc, t_stime, t_pos, t_ret,
                   t_resumes, t_pending, t_d0, t_k, t_ontime>>
    /\ t_last' = "tick"
    /\ UNCHANGED <<qvars, shvars, svars, rvars, cvars, mvars, pvars, lvars,
                   bvars, kvars>>

\* An interrupt handler calls go(), at any position of the main context.
TIsrGo ==
    /\ t_pos < MaxResumes
    /\ t_task' = Task_go(t_task)
    /\ t_pending' = TRUE
    /\ UNCHANGED <<t_diag, t_now, t_start, t_pc, t_stime, t_pos, t_ret,
                   t_resumes, t_d0, t_k, t_ontime>>
    /\ t_last' = "go"
    /\ UNCHANGED <<qvars, shvars, svars, rvars, cvars, mvars, pvars, lvars,
                   bvars, kvars>>

\* schedule() is called, lines 41-42 and 76-77: ready() is evaluated; a task
\* that is not ready makes the call return False.
TSchedule ==
    /\ t_pc = "idle"
    /\ t_pos < MaxResumes
    /\ LET tk   == Task_ready(t_task, t_now)
           late == IF t_task.period # None
                   THEN ticks_diff(t_now, t_task.next_run[1]) ELSE 0
       IN  /\ t_task' = tk
           /\ t_diag' = Task_ready_profile(t_diag, t_task, t_now)
           /\ t_k' = IF late > 0 THEN t_k + 1 ELSE t_k
           /\ t_ontime' = (t_ontime /\ (late > 0 => late < t_task.period[1]))
           /\ IF tk.go_flag
              THEN /\ t_pc' = "clear"
                   /\ UNCHANGED t_ret
              ELSE /\ t_pc' = "idle"
                   /\ t_ret' = "False"
    /\ t_resumes' = 0
    /\ UNCHANGED <<t_now, t_start, t_stime, t_pos, t_pending, t_d0>>
    /\ t_last' = "schedule"
    /\ UNCHANGED <<qvars, shvars, svars, rvars, cvars, mvars, pvars, lvars,
                   bvars, kvars>>

\* schedule(), lines 43-46: the go flag is cleared, and with profiling the
\* start time is taken.
TClearGo ==
    /\ t_pc = "clear"
    /\ t_task' = Task_clear_go(t_task)
    /\ t_stime' = IF t_diag.prof THEN Some(t_now) ELSE None
    /\ t_pc' = "resume"
    /\ UNCHANGED <<t_diag, t_now, t_start, t_pos, t_ret, t_resumes, t_pending,
                   t_d0, t_k, t_ontime>>
    /\ t_last' = "clear"
    /\ UNCHANGED <<qvars, shvars, svars, rvars, cvars, mvars, pvars, lvars,
                   bvars, kvars>>

\* schedule(), line 48: next() resumes the routine.
TResume ==
    /\ t_pc = "resume"
    /\ t_pos' = t_pos + 1
    /\ t_resumes' = t_resumes + 1
    /\ t_pending' = FALSE
    /\ t_pc' = "running"
    /\ UNCHANGED <<t_task, t_diag, t_now, t_start, t_stime, t_ret, t_d0, t_k,
                   t_ontime>>
    /\ t_last' = "resume"
    /\ UNCHANGED <<qvars, shvars, svars, rvars, cvars, mvars, pvars, lvars,
                   bvars, kvars>>

\* schedule(), lines 48-74: the routine yields curr_state, the end time is
\* taken, the profile and the trace are brought up to date, and the call
\* returns True.
TYield(curr_state, mem_ok) ==
    /\ t_pc = "running"
    /\ t_task' = Task_after_run(t_task)
    /\ t_diag' = Task_trace_run(Task_profile_run(t_diag, t_stime, t_now),
                                t_now, curr_state, mem_ok)
    /\ t_stime' = None
    /\ t_ret' = "True"
    /\ t_pc' = "idle"
    /\ UNCHANGED <<t_now, t_start, t_pos, t_resumes, t_pending, t_d0, t_k,
                   t_ontime>>
    /\ t_last' = "yield"
    /\ UNCHANGED <<qvars, shvars, svars, rvars, cvars, mvars, pvars, lvars,
                   bvars, kvars>>

TaskNext ==
    \/ \E d \in {TickShort, TickLong} : TTick(d)
    \/ TIsrGo
    \/ TSchedule
    \/ TClearGo
    \/ TResume
    \/ \E curr_state \in 0 .. (NumCodes - 1), mem_ok \in BOOLEAN :
          TYield(curr_state, mem_ok)

SchedNext ==
    \/ \E t \in TaskIds, priority \in 1 .. NumPri,
          period \in {None, Some(PeriodMs)} : NewTask(t, priority, period)
    \/ Tick
    \/ \E t \in TaskIds : IsrGo(t)
    \/ PriSchedCall
    \/ Poll
    \/ ClearGo
    \/ Run

\* The embedding program registers its tasks and does nothing else.
ListNext ==
    \E t \in TaskIds, priority \in 0 .. MaxListPri,
       period \in {None, Some(PeriodMs)} : NewTask(t, priority, period)

QueueNext ==
    \/ \E item \in Vals : MainPutCall(item)
    \/ MainPutSpinExit
    \/ MainPutWrite
    \/ MainGetCall
    \/ MainGetSpinExit
    \/ MainGetRead
    \/ \E item \in Vals : IsrPut(item)
    \/ IsrGet
    \/ QueueClear

----------------------------------------------------------------------------
(* Queue.put and Queue.get line by line.  The main context executes one    *)
(* statement per step; an interrupt handler runs between two statements    *)
(* unless the call has masked interrupts.  The handlers of this program    *)
(* call the queries at any such moment, and put and get while the main     *)
(* context is outside the body of a call.                                  *)

\* The lines of the body of put and of get, from the statement after
\* disable_irq to enable_irq.
PutLines == {"put59", "put60", "put61", "put63", "put64", "put66", "put69"}

GetLines == {"get80", "get82", "get83", "get85", "get86", "get89"}

\* The line that follows a line.
LineAfter(pc) ==
    CASE pc = "put56" -> "put59"
      [] pc = "put59" -> "put60"
      [] pc = "put60" -> "put61"
      [] pc = "put61" -> "put63"
      [] pc = "put63" -> "put64"
      [] pc = "put64" -> "put66"
      [] pc = "put66" -> "put69"
      [] pc = "put69" -> "idle"
      [] pc = "get77" -> "get80"
      [] pc = "get80" -> "get82"
      [] pc = "get82" -> "get83"
      [] pc = "get83" -> "get85"
      [] pc = "get85" -> "get86"
      [] pc = "get86" -> "get89"
      [] pc = "get89" -> "idle"

\* The queue after the statement at a line of put or get.
Queue_line(q, item, pc) ==
    CASE pc = "put59" -> [q EXCEPT !.buffer = [q.buffer EXCEPT ![q.wr_idx] = item]]
      [] pc = "put60" -> [q EXCEPT !.wr_idx = q.wr_idx + 1]
      [] pc = "put61" -> [q EXCEPT !.wr_idx = IF q.wr_idx >= q.size THEN 0
                                              ELSE q.wr_idx]
      [] pc = "put63" -> [q EXCEPT !.num_items = q.num_items + 1]
      [] pc = "put64" -> [q EXCEPT !.num_items =
                             IF q.num_items >= q.size THEN q.size
                             ELSE q.num_items]
      [] pc = "put66" -> [q EXCEPT !.max_full =
                             IF q.num_items > q.max_full THEN q.num_items
                             ELSE q.max_full]
      [] pc = "get82" -> [q EXCEPT !.rd_idx = q.rd_idx + 1]
      [] pc = "get83" -> [q EXCEPT !.rd_idx = IF q.rd_idx >= q.size THEN 0
                                              ELSE q.rd_idx]
      [] pc = "get85" -> [q EXCEPT !.num_items = q.num_items - 1]
      [] pc = "get86" -> [q EXCEPT !.num_items = IF q.num_items < 0 THEN 0
                                                 ELSE q.num_items]
      [] OTHER -> q

\* Interrupts are masked: a thread-protected call is between its
\* disable_irq and its enable_irq.
LineMasked == ql_protect /\ ql_pc \in PutLines \cup GetLines

\* The main context is outside the body of a call.
LineOutside == ql_pc \notin PutLines \cup GetLines

\* What the four queries return, called one after the other with nothing
\* in between.
Queue_answers(q) ==
    [ any    |-> Queue_any(q),
      empty  |-> Queue_empty(q),
      full   |-> Queue_full(q),
      num_in |-> Queue_num_in(q),
      size   |-> q.size ]

LineInitial ==
    /\ \E size \in 1 .. LineMaxSize, overwrite \in BOOLEAN :
          ql_queue = Queue_init(size, overwrite)
    /\ ql_protect \in BOOLEAN
    /\ ql_pc = "idle"
    /\ ql_item = 0
    /\ ql_ans = None
    /\ ql_last = "init"

LineFrame ==
    UNCHANGED <<qvars, shvars, svars, rvars, tvars, cvars, mvars, pvars,
                bvars, kvars>>

\* put(item), main context, lines 48-54, the first full() test: a full
\* queue without overwrite sends the caller into the busy-wait of line 53.
LinePutCall(item) ==
    /\ ql_pc = "idle"
    /\ ql_item' = item
    /\ ql_pc' = IF Queue_full(ql_queue) /\ ~ql_queue.overwrite THEN "put53"
                ELSE "put56"
    /\ ql_last' = "put_call"
    /\ UNCHANGED <<ql_queue, ql_protect, ql_ans>>
    /\ LineFrame

\* get(), main context, lines 74-75, the first empty() test.
LineGetCall ==
    /\ ql_pc = "idle"
    /\ ql_pc' = IF Queue_empty(ql_queue) THEN "get74" ELSE "get77"
    /\ ql_last' = "get_call"
    /\ UNCHANGED <<ql_queue, ql_protect, ql_item, ql_ans>>
    /\ LineFrame

\* The busy-wait of line 53 or of line 74 ends.
LineSpinExit ==
    /\ \/ ql_pc = "put53" /\ ~Queue_full(ql_queue) /\ ql_pc' = "put56"
       \/ ql_pc = "get74" /\ ~Queue_empty(ql_queue) /\ ql_pc' = "get77"
    /\ ql_last' = "spin_exit"
    /\ UNCHANGED <<ql_queue, ql_protect, ql_item, ql_ans>>
    /\ LineFrame

\* The main context executes the statement it is at: lines 56-70 of put,
\* lines 77-92 of get.
LineStep ==
    /\ ql_pc \in {"put56", "get77"} \cup PutLines \cup GetLines
    /\ ql_queue' = Queue_line(ql_queue, ql_item, ql_pc)
    /\ ql_item' = IF ql_pc = "get80" THEN Queue_get_value(ql_queue)
                  ELSE ql_item
    /\ ql_pc' = LineAfter(ql_pc)
    /\ ql_last' = "line"
    /\ UNCHANGED <<ql_protect, ql_ans>>
    /\ LineFrame

\* clear(), from the main context between two calls.
LineClear ==
    /\ ql_pc = "idle"
    /\ ql_queue' = Queue_clear(ql_queue)
    /\ ql_last' = "clear"
    /\ UNCHANGED <<ql_protect, ql_pc, ql_item, ql_ans>>
    /\ LineFrame

\* An interrupt handler calls put(item, in_ISR = True): lines 48-50 and
\* 59-67.
LineIsrPut(item) ==
    /\ LineOutside
    /\ ql_queue' = IF Queue_full(ql_queue) THEN ql_queue
                   ELSE Queue_put_store(ql_queue, item)
    /\ ql_last' = "isr_put"
    /\ UNCHANGED <<ql_protect, ql_pc, ql_item, ql_ans>>
    /\ LineFrame

\* An interrupt handler calls get(in_ISR = True) after any() told it that
\* the queue holds a value.
LineIsrGet ==
    /\ LineOutside
    /\ Queue_any(ql_queue)
    /\ ql_queue' = Queue_get_advance(ql_queue)
    /\ ql_last' = "isr_get"
    /\ UNCHANGED <<ql_protect, ql_pc, ql_item, ql_ans>>
    /\ LineFrame

\* any(), empty(), full() and num_in() are called, lines 95-108: by the
\* main context between two calls, or by an interrupt handler.
LineQuery ==
    /\ ql_pc = "idle" \/ ~LineMasked
    /\ ql_ans' = Some(Queue_answers(ql_queue))
    /\ ql_last' = "query"
    /\ UNCHANGED <<ql_queue, ql_protect, ql_pc, ql_item>>
    /\ LineFrame

LineNext ==
    \/ \E item \in Vals : LinePutCall(item)
    \/ LineGetCall
    \/ LineSpinExit
    \/ LineStep
    \/ LineClear
    \/ \E item \in Vals : LineIsrPut(item)
    \/ LineIsrGet
    \/ LineQuery

----------------------------------------------------------------------------
(* button_press.py: button_callback and button_task.  The generator        *)
(* executes one statement per step; the resumption with the test of line   *)
(* 48 is one step, and so is the reset of line 56 or 64 with the yield of   *)
(* line 66 that follows it.  button_callback runs between any two steps.    *)

Motors == {"motorL", "motorR"}

\* motor.py, Motor.enable and Motor.disable: self.SLP.high(), self.SLP.low().
Motor_enable(slp, m) == [slp EXCEPT ![m] = TRUE]

Motor_disable(slp, m) == [slp EXCEPT ![m] = FALSE]

\* A button_task that does not reset button_pressed after enabling.
Button_line_no_reset(st, pc) ==
    CASE pc = "l50" -> [st EXCEPT !.flag = 0]
      [] pc = "l52" -> [st EXCEPT !.slp = Motor_disable(st.slp, "motorL")]
      [] pc = "l53" -> [st EXCEPT !.slp = Motor_disable(st.slp, "motorR")]
      [] pc = "l56" -> [st EXCEPT !.pressed = FALSE]
      [] pc = "l58" -> [st EXCEPT !.flag = 1]
      [] pc = "l60" -> [st EXCEPT !.slp = Motor_enable(st.slp, "motorL")]
      [] pc = "l61" -> [st EXCEPT !.slp = Motor_enable(st.slp, "motorR")]
      [] OTHER -> st

\* button_task, lines 49-64: button_pressed, flag and the SLP levels after
\* the statement at a line.
Button_line(st, pc) ==
    CASE pc = "l50" -> [st EXCEPT !.flag = 0]
      [] pc = "l52" -> [st EXCEPT !.slp = Motor_disable(st.slp, "motorL")]
      [] pc = "l53" -> [st EXCEPT !.slp = Motor_disable(st.slp, "motorR")]
      [] pc = "l56" -> [st EXCEPT !.pressed = FALSE]
      [] pc = "l58" -> [st EXCEPT !.flag = 1]
      [] pc = "l60" -> [st EXCEPT !.slp = Motor_enable(st.slp, "motorL")]
      [] pc = "l61" -> [st EXCEPT !.slp = Motor_enable(st.slp, "motorR")]
      [] pc = "l64" -> [st EXCEPT !.pressed = FALSE]
      [] OTHER -> st

\* button_task, lines 48-66: the line that follows a line.
Button_after(pc, flag) ==
    CASE pc = "l49" -> IF flag = 1 THEN "l50"
                       ELSE IF flag = 0 THEN "l58" ELSE "yield"
      [] pc = "l50" -> "l52"
      [] pc = "l52" -> "l53"
      [] pc = "l53" -> "l54"
      [] pc = "l54" -> "l56"
      [] pc = "l56" -> "yield"
      [] pc = "l58" -> "l60"
      [] pc = "l60" -> "l61"
      [] pc = "l61" -> "l62"
      [] pc = "l62" -> "l64"
      [] pc = "l64" -> "yield"

\* main.py, line 63, and Motor.__init__: flag = 0, both drivers asleep.
ButtonInitial ==
    /\ button_pressed = FALSE
    /\ b_flag = 0
    /\ b_slp = [m \in Motors |-> FALSE]
    /\ b_pc = "yield"
    /\ b_flag0 = 0
    /\ b_slp0 = [m \in Motors |-> FALSE]
    /\ b_toggles = 0
    /\ b_edges = 0
    /\ b_toggled = 0
    /\ b_last = "init"

ButtonFrame ==
    UNCHANGED <<qvars, shvars, svars, rvars, tvars, cvars, mvars, pvars,
                lvars, kvars>>

\* button_callback, lines 24-26: the falling edge of the button pin.
ButtonCallback ==
    /\ button_pressed \/ b_edges < MaxPresses
    /\ button_pressed' = TRUE
    /\ b_edges' = IF button_pressed THEN b_edges ELSE b_edges + 1
    /\ b_last' = "callback"
    /\ UNCHANGED <<b_flag, b_slp, b_pc, b_flag0, b_slp0, b_toggles,
                   b_toggled>>
    /\ ButtonFrame

\* next() resumes button_task, lines 47-48 (at the first resumption, lines
\* 46-48): with button_pressed False the generator goes to the yield of
\* line 66.
ButtonResume ==
    /\ b_pc = "yield"
    /\ b_pc' = IF button_pressed THEN "l49" ELSE "yield"
    /\ b_flag0' = b_flag
    /\ b_slp0' = b_slp
    /\ b_toggles' = 0
    /\ b_last' = "resume"
    /\ UNCHANGED <<button_pressed, b_flag, b_slp, b_edges, b_toggled>>
    /\ ButtonFrame

\* button_task executes the statement it is at.
ButtonStep ==
    /\ b_pc # "yield"
    /\ LET st == Button_line([pressed |-> button_pressed, flag |-> b_flag,
                              slp |-> b_slp], b_pc)
       IN  /\ button_pressed' = st.pressed
           /\ b_flag' = st.flag
           /\ b_slp' = st.slp
           /\ b_toggles' = IF st.flag # b_flag THEN b_toggles + 1 ELSE b_toggles
           /\ b_toggled' = IF st.flag # b_flag THEN b_toggled + 1 ELSE b_toggled
    /\ b_pc' = Button_after(b_pc, b_flag)
    /\ b_last' = "line"
    /\ UNCHANGED <<b_flag0, b_slp0, b_edges>>
    /\ ButtonFrame

ButtonNext ==
    \/ ButtonCallback
    \/ ButtonResume
    \/ ButtonStep

----------------------------------------------------------------------------
(* t4.py: Track_1.  A resumption runs from one yield to the next and is    *)
(* one step.  What the sensors and the PID controller return during the    *)
(* resumption is its input: whether the accelerometer reads 250 or more,   *)
(* whether the encoder has passed the goal of the state, where the encoder *)
(* is on the first line, the correction, whether the heading is off the    *)
(* target by more than the margin, and the heading error of state s3.      *)

default_effort == 30
s13 == 12
error1 == 13

Corrections == {- MaxCorrection, 0, MaxCorrection}

TrackInputs ==
    [ bump    : BOOLEAN,
      reached : BOOLEAN,
      place   : {"line", "diamond", "far"},
      corr    : Corrections,
      off     : BOOLEAN,
      err     : {0, AngleError} ]

\* motor.py, Motor.set_effort, called on motorL with l and on motorR with r.
Set_efforts(st, l, r) ==
    [st EXCEPT !.eff = [m \in Motors |-> IF m = "motorL" THEN l ELSE r]]

\* Lines 86-94, 186-194 and 276-284: new_effort_left and new_effort_right
\* from the correction.
Follow_line(corr) ==
    IF corr # 0 THEN << default_effort + corr, default_effort - corr >>
    ELSE << default_effort, default_effort >>

\* Lines 96-98, 195-197 and 285-287: set_effort(new_effort_left),
\* set_effort(new_effort_right), yield; a NameError where the two were
\* never assigned.
Apply_efforts(st, line) ==
    IF st.new = None THEN [st EXCEPT !.pc = "raised"]
    ELSE [Set_efforts(st, st.new[1], st.new[2]) EXCEPT !.pc = line]

\* The while loops of states s4, s8 and s10: turn and yield while the
\* heading is off the target; then set the efforts (l, r), go to state
\* next and yield.
Turn(st, in, turn_l, turn_r, in_loop, l, r, next, after) ==
    IF in.off
    THEN [Set_efforts(st, turn_l, turn_r) EXCEPT !.pc = in_loop]
    ELSE [Set_efforts(st, l, r) EXCEPT !.s = next, !.pc = after]

\* Lines 158-160, 201-203 and the like: pos and goal are set on entering
\* the state; the encoder is past the goal only in a later resumption.
Reached(st, in) == st.pos /\ in.reached

\* Lines 157-175, state s5.
Track_s5(st, in) ==
    LET st1 == [st EXCEPT !.pos = TRUE]
        st2 == IF in.bump THEN [Set_efforts(st1, 0, 0) EXCEPT !.s = error1]
               ELSE st1
        st3 == IF Reached(st, in)
               THEN [Set_efforts(st2, 0, 0) EXCEPT !.pos = FALSE, !.s = 6]
               ELSE st2
    IN  [st3 EXCEPT !.pc = "y175"]

\* Lines 178-197, state s6.
Track_s6(st, in) ==
    IF in.bump
    THEN Apply_efforts([Set_efforts(st, 0, 0) EXCEPT !.s = 7], "y197")
    ELSE Apply_efforts([st EXCEPT !.new = Follow_line(in.corr)], "y197")

\* Lines 269-287, state s13.
Track_s13(st, in) ==
    IF in.bump
    THEN Apply_efforts(Set_efforts(st, 0, 0), "y287")
    ELSE Apply_efforts([st EXCEPT !.new = Follow_line(in.corr)], "y287")

\* Lines 71-98, state s1.
Track_s1(st, in) ==
    IF in.place = "far" THEN Apply_efforts([st EXCEPT !.s = 2], "y98")
    ELSE IF in.place = "diamond"
         THEN Apply_efforts([st EXCEPT !.new = Follow_line(0)], "y98")
         ELSE Apply_efforts([st EXCEPT !.new = Follow_line(in.corr)], "y98")

\* Lines 121-140, state s3.
Track_s3(st, in) ==
    IF Reached(st, in)
    THEN [Set_efforts(st, 0, 0) EXCEPT !.pos = FALSE, !.s = 4, !.pc = "y140"]
    ELSE LET c == IF in.err > 20 THEN in.err \div 10 ELSE 0
         IN  [Set_efforts(st, 20 + c, 20 - c) EXCEPT !.pos = TRUE,
                                                     !.pc = "y140"]

\* Lines 200-211, 226-237 and 253-266, states s7, s9 and s11: drive with
\* the efforts (l, r) until the encoder passes the goal.
Drive(st, in, l, r, next, line) ==
    IF Reached(st, in)
    THEN [Set_efforts(st, 0, 0) EXCEPT !.pos = FALSE, !.s = next, !.pc = line]
    ELSE [Set_efforts(st, l, r) EXCEPT !.pos = TRUE, !.pc = line]

\* Track_1 from the statement after a yield (or from its first line) to
\* the next yield: the block of the state s runs.
Track_1(st, in) ==
    CASE st.s = 0 ->
            Track_s1([Set_efforts(st, default_effort, default_effort)
                         EXCEPT !.s = 1], in)
      [] st.s = 1 -> Track_s1(st, in)
      [] st.s = 2 ->
            IF in.off THEN [Set_efforts(st, -15, 15) EXCEPT !.pc = "y118"]
            ELSE [Set_efforts(st, 0, 0) EXCEPT !.s = 3, !.pc = "y118"]
      [] st.s = 3 -> Track_s3(st, in)
      [] st.s = 4 -> Turn(st, in, 20, -20, "y150", 20, 20, 5, "y154")
      [] st.s = 5 -> Track_s5(st, in)
      [] st.s = 6 -> Track_s6(st, in)
      [] st.s = 7 -> Drive(st, in, -20, -20, 8, "y211")
      [] st.s = 8 -> Turn(st, in, 20, -20, "y219", 0, 0, 9, "y223")
      [] st.s = 9 -> Drive(st, in, 20, 22, 10, "y237")
      [] st.s = 10 -> Turn(st, in, -20, 20, "y246", 0, 0, 11, "y250")
      [] st.s = 11 ->
            Drive(st, in, default_effort, default_effort + 1, s13, "y266")
      [] st.s = s13 -> Track_s13(st, in)
      [] st.s = error1 -> [st EXCEPT !.pc = "y292"]

\* The state whose block a resumption runs: s0 falls through to s1.
Block(st) == IF st.s = 0 THEN 1 ELSE st.s

\* Lines 28 and 49-50 run at the first resumption; Motor.__init__ leaves
\* the duty cycle at 0.
TrackInitial ==
    /\ k_s = 0
    /\ k_pc = "start"
    /\ k_eff = [m \in Motors |-> 0]
    /\ k_new = None
    /\ k_pos = FALSE
    /\ k_blk = 0
    /\ k_bump = FALSE
    /\ k_bump5 = FALSE

\* next() resumes Track_1 with the inputs in.
TrackResume(in) ==
    /\ k_pc # "raised"
    /\ LET st0 == [s |-> k_s, pc |-> k_pc, eff |-> k_eff, new |-> k_new,
                   pos |-> k_pos]
           st  == Track_1(st0, in)
       IN  /\ k_s' = st.s
           /\ k_pc' = st.pc
           /\ k_eff' = st.eff
           /\ k_new' = st.new
           /\ k_pos' = st.pos
           /\ k_blk' = Block(st0)
           /\ k_bump' = (in.bump /\ Block(st0) \in {5, 6, s13})
           /\ k_bump5' = (k_bump5 \/ (in.bump /\ Block(st0) = 5))
    /\ UNCHANGED <<qvars, shvars, svars, rvars, tvars, cvars, mvars, pvars,
                   lvars, bvars>>

TrackNext == \E in \in TrackInputs : TrackResume(in)

----------------------------------------------------------------------------
(* One Task whose methods are called one after the other.                  *)

SeqInitial ==
    /\ \E period \in {None, Some(PeriodMs)}, profile \in BOOLEAN,
          trace \in BOOLEAN, start \in {0, TICKS_PERIOD - StartBefore} :
          /\ p_start = start
          /\ p_task = Task_init(1, period, start)
          /\ p_diag = Diag_init(profile, trace, start)
    /\ p_now = p_start
    /\ p_out = "none"
    /\ p_pos = 0
    /\ p_last = "init"
    /\ p_pending = FALSE
    /\ p_external = (p_task.period = None)
    /\ p_burst = 0
    /\ p_late0 = 0
    /\ p_durs = << >>

\* The counter advances by d microseconds between two calls.
PTick(d) ==
    /\ ticks_diff(p_now, p_start) + d <= MaxSeqElapsed
    /\ p_now' = (p_now + d) % TICKS_PERIOD
    /\ p_last' = "tick"
    /\ p_burst' = 0
    /\ p_late0' = 0
    /\ UNCHANGED <<p_task, p_diag, p_start, p_out, p_pos, p_pending,
                   p_external, p_durs>>
    /\ UNCHANGED <<qvars, shvars, svars, rvars, tvars, cvars, mvars, lvars,
                   bvars, kvars>>

\* go() is called.
PGo ==
    /\ p_pos < MaxSeqResumes
    /\ p_task' = Task_go(p_task)
    /\ p_pending' = TRUE
    /\ p_last' = "go"
    /\ p_burst' = 0
    /\ p_late0' = 0
    /\ UNCHANGED <<p_diag, p_now, p_start, p_out, p_pos, p_external, p_durs>>
    /\ UNCHANGED <<qvars, shvars, svars, rvars, tvars, cvars, mvars, lvars,
                   bvars, kvars>>

\* set_period(new_period) is called.
PSetPeriod(new_period) ==
    /\ p_task' = Task_set_period(p_task, new_period)
    /\ p_external' = (new_period = None)
    /\ p_last' = "set_period"
    /\ p_burst' = 0
    /\ p_late0' = 0
    /\ UNCHANGED <<p_diag, p_now, p_start, p_out, p_pos, p_pending, p_durs>>
    /\ UNCHANGED <<qvars, shvars, svars, rvars, tvars, cvars, mvars, lvars,
                   bvars, kvars>>

\* schedule() is called, lines 41-77, and runs to its end.  ready() raises
\* TypeError, or finds the task not ready and schedule() returns False, or
\* the go flag is cleared and the routine resumed: it runs for dur
\* microseconds and yields curr_state; the profile and the trace are brought
\* up to date and schedule() returns True.
PSchedule(dur, curr_state, mem_ok) ==
    /\ p_pos < MaxSeqResumes
    /\ ticks_diff(p_now, p_start) + dur <= MaxSeqElapsed
    /\ p_last' = "schedule"
    /\ IF Task_ready_raises(p_task)
       THEN /\ p_out' = "TypeError"
            /\ UNCHANGED <<p_task, p_diag, p_now, p_pos, p_pending, p_burst,
                           p_late0, p_durs>>
       ELSE LET tk    == Task_ready(p_task, p_now)
                dg    == Task_ready_profile(p_diag, p_task, p_now)
                late  == IF p_task.period # None
                         THEN ticks_diff(p_now, p_task.next_run[1]) ELSE 0
                etime == (p_now + dur) % TICKS_PERIOD
                stime == IF dg.prof THEN Some(p_now) ELSE None
            IN  /\ p_late0' = IF p_burst = 0 /\ late > 0 THEN late
                              ELSE p_late0
                /\ IF tk.go_flag
                   THEN /\ p_task' = Task_after_run(Task_clear_go(tk))
                        /\ p_diag' = Task_trace_run(
                                        Task_profile_run(dg, stime, etime),
                                        etime, curr_state, mem_ok)
                        /\ p_now' = etime
                        /\ p_pos' = p_pos + 1
                        /\ p_pending' = FALSE
                        /\ p_burst' = IF dur = 0 THEN p_burst + 1 ELSE 0
                        /\ p_durs' = IF dg.prof THEN Append(p_durs, dur)
                                     ELSE p_durs
                        /\ p_out' = "True"
                   ELSE /\ p_task' = tk
                        /\ p_diag' = dg
                        /\ p_out' = "False"
                        /\ UNCHANGED <<p_now, p_pos, p_pending, p_burst,
                                       p_durs>>
    /\ UNCHANGED <<p_start, p_external>>
    /\ UNCHANGED <<qvars, shvars, svars, rvars, tvars, cvars, mvars, lvars,
                   bvars, kvars>>

\* The program changes the period of a task it neither profiles nor traces.
PeriodNext ==
    \/ \E d \in {TickLong, LongWait} : PTick(d)
    \/ PGo
    \/ \E new_period \in {None, Some(NewPeriodMs)} : PSetPeriod(new_period)
    \/ \E dur \in {0, TickShort} : PSchedule(dur, 0, TRUE)

\* The program has a task profiled or traced and does not change its period.
ProfNext ==
    \/ PTick(LongWait)
    \/ PGo
    \/ \E dur \in {0, TickShort, TickLong}, curr_state \in 0 .. (NumCodes - 1),
          mem_ok \in BOOLEAN : PSchedule(dur, curr_state, mem_ok)

----------------------------------------------------------------------------
(* Task routines that use a Queue.  A routine resumed by pri_sched() calls *)
(* put and get from the main context before it yields; interrupt handlers  *)
(* put into the queue, and get from it when it holds a value.              *)

\* The routine yields, between two of its queue calls.
RoutineYield == q_pc = "idle" /\ Run

\* A handler that calls get(in_ISR = True) after any() told it that the
\* queue holds a value.
IsrGetAny == Queue_any(queue) /\ IsrGet

BlockNext ==
    \/ \E t \in TaskIds, priority \in 1 .. NumPri : NewTask(t, priority, None)
    \/ \E t \in TaskIds : IsrGo(t)
    \/ PriSchedCall
    \/ Poll
    \/ ClearGo
    \/ RoutineYield
    \/ \E item \in Vals : s_pc = "run" /\ MainPutCall(item)
    \/ s_pc = "run" /\ MainPutSpinExit
    \/ s_pc = "run" /\ MainPutWrite
    \/ s_pc = "run" /\ MainGetCall
    \/ s_pc = "run" /\ MainGetSpinExit
    \/ s_pc = "run" /\ MainGetRead
    \/ \E item \in Vals : IsrPut(item)
    \/ IsrGetAny

----------------------------------------------------------------------------
(* The specifications.  Outside SpecQueue the queue is one of capacity 1   *)
(* that nothing uses.                                                      *)

QueueUnused == QueueInitial /\ queue = Queue_init(1, FALSE)

TaskUnused ==
    /\ TaskInitial
    /\ t_start = 0
    /\ t_task = Task_init(1, None, 0)
    /\ t_diag = Diag_init(FALSE, FALSE, 0)

SeqUnused ==
    /\ SeqInitial
    /\ p_start = 0
    /\ p_task = Task_init(1, None, 0)
    /\ p_diag = Diag_init(FALSE, FALSE, 0)

LineUnused ==
    /\ LineInitial
    /\ ql_queue = Queue_init(1, FALSE)
    /\ ~ql_protect

\* Where the mask is not followed, both objects are thread-protected.
MaskUnused == MaskInitial /\ m_protect = [o \in MaskObjects |-> TRUE]

TaskInit ==
    /\ QueueUnused /\ ShareInitial /\ SchedInitial /\ TaskInitial
    /\ CtorInitial /\ MaskUnused /\ SeqUnused /\ LineUnused
    /\ ButtonInitial /\ TrackInitial

QueueInit ==
    /\ QueueInitial /\ ShareInitial /\ SchedInitial /\ TaskUnused
    /\ CtorInitial /\ MaskUnused /\ SeqUnused /\ LineUnused
    /\ ButtonInitial /\ TrackInitial

ShareInit ==
    /\ QueueUnused /\ ShareInitial /\ SchedInitial /\ TaskUnused
    /\ CtorInitial /\ MaskUnused /\ SeqUnused /\ LineUnused
    /\ ButtonInitial /\ TrackInitial

SchedInit ==
    /\ QueueUnused /\ ShareInitial /\ SchedInitial /\ TaskUnused
    /\ CtorInitial /\ MaskUnused /\ SeqUnused /\ LineUnused
    /\ ButtonInitial /\ TrackInitial

CtorInit ==
    /\ QueueUnused /\ ShareInitial /\ SchedInitial /\ TaskUnused
    /\ CtorInitial /\ MaskUnused /\ SeqUnused /\ LineUnused
    /\ ButtonInitial /\ TrackInitial

SpecQueue == QueueInit /\ [][QueueNext]_vars

SpecShare == ShareInit /\ [][ShareNext]_vars

SpecSched == SchedInit /\ [][SchedNext]_vars

SpecCtor == CtorInit /\ [][CtorNext]_vars

SpecList == SchedInit /\ [][ListNext]_vars

SpecRR == SchedInit /\ [][RrNext]_vars

\* The queue the routines use has a capacity of 1, without overwrite.
SpecBlock == SchedInit /\ [][BlockNext]_vars

SpecTask == TaskInit /\ [][TaskNext]_vars

\* A Queue of capacity 1 .. MaskMaxSize and a Share, at the interrupt mask.
MaskInit ==
    /\ QueueInitial
    /\ queue.size <= MaskMaxSize
    /\ ShareInitial /\ SchedInitial /\ TaskUnused /\ CtorInitial /\ MaskInitial
    /\ SeqUnused /\ LineUnused /\ ButtonInitial /\ TrackInitial

SpecMask == MaskInit /\ [][MaskNext]_vars

\* A task without profiling and tracing, whose period the program changes.
PeriodInit ==
    /\ QueueUnused /\ ShareInitial /\ SchedInitial /\ TaskUnused /\ CtorInitial
    /\ MaskUnused /\ LineUnused /\ ButtonInitial /\ TrackInitial
    /\ SeqInitial
    /\ ~p_diag.prof
    /\ ~p_diag.trace

SpecPeriod == PeriodInit /\ [][PeriodNext]_vars

\* A task with profiling or tracing.
ProfInit ==
    /\ QueueUnused /\ ShareInitial /\ SchedInitial /\ TaskUnused /\ CtorInitial
    /\ MaskUnused /\ LineUnused /\ ButtonInitial /\ TrackInitial
    /\ SeqInitial
    /\ p_diag.prof \/ p_diag.trace

SpecProf == ProfInit /\ [][ProfNext]_vars

\* A Queue of capacity 1 .. LineMaxSize, with and without thread protection
\* and overwrite, whose calls are followed line by line.
LineInit ==
    /\ QueueUnused /\ ShareInitial /\ SchedInitial /\ TaskUnused /\ CtorInitial
    /\ MaskUnused /\ SeqUnused /\ ButtonInitial /\ TrackInitial
    /\ LineInitial

SpecLines == LineInit /\ [][LineNext]_vars

\* The button interrupt and button_task as main.py starts it.
ButtonInit ==
    /\ QueueUnused /\ ShareInitial /\ SchedInitial /\ TaskUnused /\ CtorInitial
    /\ MaskUnused /\ SeqUnused /\ LineUnused /\ TrackInitial
    /\ ButtonInitial

SpecButton == ButtonInit /\ [][ButtonNext]_vars

\* Track_1 as main.py starts it.
TrackInit ==
    /\ QueueUnused /\ ShareInitial /\ SchedInitial /\ TaskUnused /\ CtorInitial
    /\ MaskUnused /\ SeqUnused /\ LineUnused /\ ButtonInitial
    /\ TrackInitial

SpecTrack == TrackInit /\ [][TrackNext]_vars

\* The dispatch loop of the embedding program calls schedule() on the task
\* again and again, and a call that has begun goes on to its end: for a
\* task without profiling and tracing, constructed at 0.
TaskLiveInit ==
    /\ TaskInit
    /\ t_start = 0
    /\ ~t_diag.prof
    /\ ~t_diag.trace

SpecTaskLive ==
    /\ TaskLiveInit
    /\ [][TaskNext]_vars
    /\ WF_vars(TSchedule)
    /\ WF_vars(TClearGo)
    /\ WF_vars(TResume)
    /\ WF_vars(\E curr_state \in 0 .. (NumCodes - 1), mem_ok \in BOOLEAN :
                  TYield(curr_state, mem_ok))

----------------------------------------------------------------------------
(* Properties of the Queue, checked under SpecQueue.                       *)

\* C1: starting from an empty queue of capacity N that no interrupt handler
\* has used, N main-context puts followed by main-context gets return the
\* values put in the order they were put; full() is true after the N-th put
\* and false after any get that follows.
C1_FifoRoundTrip ==
    (/\ ~q_isr_seen
     /\ fifo_phase \in {"fill", "drain"}
     /\ Len(fifo_in) = queue.size) =>
        /\ Len(fifo_out) <= queue.size
        /\ fifo_out = SubSeq(fifo_in, 1, Len(fifo_out))
        /\ (Len(fifo_out) = 0 => Queue_full(queue))
        /\ (Len(fifo_out) >= 1 => ~Queue_full(queue))

\* C2: with overwrite enabled, after capacity + 1 main-context puts
\* v0 .. vN on an empty queue, the gets return v1, v2, .., vN in that order
\* and the high-water-mark equals the capacity.
C2_OverwriteDropsOldest ==
    (/\ ~q_isr_seen
     /\ fifo_phase = "drain"
     /\ queue.overwrite
     /\ Len(fifo_in) = queue.size + 1) =>
        /\ fifo_out = SubSeq(fifo_in, 2, Len(fifo_out) + 1)
        /\ queue.max_full = queue.size

\* C3: after any calls of put, get and clear, from the main context or from
\* interrupt handlers, with either overwrite setting, the occupancy lies in
\* 0 .. capacity and the read and write indices lie in 0 .. capacity - 1.
C3_QueueBounds ==
    /\ 0 <= queue.num_items /\ queue.num_items <= queue.size
    /\ 0 <= queue.rd_idx /\ queue.rd_idx < queue.size
    /\ 0 <= queue.wr_idx /\ queue.wr_idx < queue.size

\* C3, witness: a put has just filled the queue, after gets and puts that
\* took both indices around the end of the buffer.
C3_Witness ==
    /\ q_last \in {"put", "isr_put"}
    /\ Queue_full(queue)
    /\ queue.size >= 2
    /\ queue.wr_idx = queue.rd_idx
    /\ queue.rd_idx > 0

\* C4: the high-water-mark is at least the occupancy and at most the
\* capacity, and no step other than clear() decreases it.
C4_HighWaterMark ==
    /\ [](/\ queue.num_items <= queue.max_full
          /\ queue.max_full <= queue.size)
    /\ [][q_last' # "clear" => queue'.max_full >= queue.max_full]_vars

\* C4, witness: the queue was full, was read from, and was then written to
\* again: the high-water-mark stays at the capacity, above the occupancy.
C4_Witness ==
    /\ q_last \in {"put", "isr_put"}
    /\ queue.size >= 2
    /\ queue.max_full = queue.size
    /\ queue.num_items < queue.max_full
    /\ queue.num_items >= 1

PutWriteStep == q_last' \in {"put", "isr_put"}

\* C16: put(value, in_ISR = True) on a full queue without overwrite returns
\* in that one step (the handler does not spin) and leaves the buffer, the
\* read and write indices, the occupancy and the high-water-mark as they
\* were: the value is dropped.
C16_IsrPutFullDrops ==
    [][(/\ q_last' \in {"isr_put", "isr_put_drop"}
        /\ Queue_full(queue)
        /\ ~queue.overwrite) =>
            /\ q_last' = "isr_put_drop"
            /\ queue' = queue
            /\ q_pc' = q_pc
            /\ q_pc' # "isr_hung"]_vars

\* C16, witness: a handler's put was dropped on a full queue without
\* overwrite whose buffer holds the values put before.
C16_Witness ==
    /\ q_last = "isr_put_drop"
    /\ ~queue.overwrite
    /\ queue.size >= 2
    /\ queue.rd_idx > 0
    /\ \A i \in DOMAIN queue.buffer : queue.buffer[i] \in Vals

\* C17, as claimed: no call made with in_ISR = True blocks; get on an empty
\* queue takes a skip path.  The handler that called it would return.
C17_IsrNeverBlocks == q_pc # "isr_hung"

\* C20, as claimed: on a queue without overwrite no put writes over a value
\* not read yet, and the occupancy is the number of values stored and not
\* read, whatever interrupt-context puts run between the full() test and
\* the write of a main-context put.
C20_RaceFreePut ==
    /\ [][(~queue.overwrite /\ PutWriteStep) => queue.wr_idx \notin q_live]_vars
    /\ [](~queue.overwrite => queue.num_items = Cardinality(q_live))

\* C21, as claimed: every get returns a value that was put and not returned
\* before, whatever interrupt-context gets and puts run between the empty()
\* test and the read of a main-context get: the slot a get reads holds a
\* value put and not read since.  Stated for a queue without overwrite.
C21_RaceFreeGet ==
    [][(~queue.overwrite /\ q_last' \in {"get", "isr_get"}) =>
          queue.rd_idx \in q_live]_vars

\* C26, as claimed: on a full queue with overwrite enabled no put is
\* dropped, from the main context or from an interrupt handler: the put
\* stores its value in the slot at the write index.
C26_OverwritePutStores ==
    [][(/\ queue.overwrite
        /\ Queue_full(queue)
        /\ q_last' \in {"put", "isr_put", "isr_put_drop"}) =>
            /\ q_last' # "isr_put_drop"
            /\ queue'.buffer[queue.wr_idx] \in Vals
            /\ q_last' = "put" => queue'.buffer[queue.wr_idx] = q_item]_vars

----------------------------------------------------------------------------
(* Properties of the constructors, checked under SpecCtor.                 *)

\* C18, as claimed: no Queue constructor call given a size <= 0 returns;
\* a Queue that is returned is never one for which full() and empty() are
\* both true.
C18_NoQueueWithoutCapacity ==
    (c_out = "returned" /\ c_obj[1].class = "Queue") =>
        /\ c_obj[1].queue[1].size >= 1
        /\ ~(Queue_full(c_obj[1].queue[1]) /\ Queue_empty(c_obj[1].queue[1]))

\* C19, as claimed: share_list holds only objects whose constructor ran to
\* its end; the object of a constructor call that raised is not in it.
C19_ShareListHoldsCompleteObjects ==
    \A i \in 1 .. Len(share_list) : share_list[i].complete

----------------------------------------------------------------------------
(* Properties of the interrupt mask, checked under SpecMask.               *)

\* C22: in a main-context put or get on a thread-protected Queue or Share,
\* the buffer and the indices are accessed while the interrupts are
\* disabled, and when the call returns the interrupts are in the state they
\* were in when it began; a call on an object that is not thread-protected,
\* and a call made with in_ISR = True, never changes that state.
C22_CriticalSection ==
    /\ [][(m_last' = "body" /\ m_protect[m_call[1].obj]) => ~irq_on]_vars
    /\ [][(m_last' = "return" /\ m_protect[m_call[1].obj]) =>
              irq_on' = m_before]_vars
    /\ [][(/\ m_last' \in {"call", "spin_exit", "mask", "body", "return"}
            /\ ~m_protect[m_call'[1].obj]) => irq_on' = irq_on]_vars
    /\ [][m_last' = "isr" => irq_on' = irq_on]_vars

\* C22, witness: a get on a thread-protected queue, called with the
\* interrupts disabled by the program, has read a value put earlier and has
\* returned.
C22_Witness ==
    /\ m_last = "return"
    /\ m_call[1].obj = "Queue"
    /\ m_call[1].op = "get"
    /\ m_protect["Queue"]
    /\ ~m_before
    /\ ~irq_on
    /\ queue.rd_idx > 0

\* C37: on a queue without overwrite that only the main context has used,
\* by puts, gets and clears in any order, the write index is the read index
\* plus the occupancy, modulo the capacity.
C37_IndexConsistency ==
    (~q_isr_seen /\ ~queue.overwrite) =>
        queue.wr_idx = (queue.rd_idx + queue.num_items) % queue.size

\* C37, witness: main-context puts and gets have taken the write index
\* around the end of the buffer and the read index not yet: the queue holds
\* a value and the write index is below the read index.
C37_Witness ==
    /\ ~q_isr_seen
    /\ ~queue.overwrite
    /\ q_last = "put"
    /\ queue.num_items >= 1
    /\ queue.wr_idx < queue.rd_idx

----------------------------------------------------------------------------
(* Properties of the queries of the Queue, checked under SpecLines.        *)

\* C36, as claimed: any(), empty(), full() and num_in() change nothing of
\* the queue, and whenever they are called, empty() is true exactly if
\* num_in() is 0, any() exactly if empty() is false, full() exactly if
\* num_in() is the capacity, and full() and empty() are not both true.
C36_SnapshotQueries ==
    /\ [][ql_last' = "query" => ql_queue' = ql_queue]_vars
    /\ [](ql_ans # None =>
              LET a == ql_ans[1]
              IN  /\ a.empty <=> (a.num_in = 0)
                  /\ a.any <=> ~a.empty
                  /\ a.full <=> (a.num_in = a.size)
                  /\ ~(a.full /\ a.empty))

----------------------------------------------------------------------------
(* Properties of the button task, checked under SpecButton.                *)

\* button_task reaches the yield of line 66 after handling a press.
ButtonSuspends == b_pc # "yield" /\ b_pc' = "yield"

----------------------------------------------------------------------------
(* Properties of the line follower, checked under SpecTrack.               *)

----------------------------------------------------------------------------
(* Properties of the Share, checked under SpecShare.                       *)

\* C6: a get returns the argument of the most recent put, from the main
\* context or from an interrupt handler, and leaves the stored value as it
\* is: after put(a); put(b), any number of gets return b.
C6_ShareLastWriteWins ==
    /\ share.buffer = sh_put
    /\ sh_last \in {"get", "isr_get"} => sh_ret = sh_put

\* C6, witness: two puts of different values, then at least two gets.
C6_Witness ==
    /\ sh_last = "get"
    /\ sh_gets >= 2
    /\ sh_prev \in ShareVals
    /\ sh_prev # sh_put
    /\ sh_ret = sh_put

----------------------------------------------------------------------------
(* Properties of the scheduler, checked under SpecSched.                   *)

\* The tasks of a strictly higher priority than task t.
Above(t) == { u \in Registered : task[u].priority > task[t].priority }

\* A step of pri_sched(), as opposed to a step of an interrupt handler, of
\* the clock or of the program between two calls.
DispatchStep == <<s_pc, s_grp, s_tries>>' # <<s_pc, s_grp, s_tries>>

\* C7, as claimed: when pri_sched() resumes a task's routine, no task of a
\* strictly higher priority is ready, also when go() from an interrupt
\* handler or the clock changes readiness during the call.
C7_NoHigherTaskReady ==
    s_pc \in {"clear", "run"} => \A u \in Above(Current) : ~IsReady(u)

\* C7, as amended: when pri_sched() resumes a task's routine, every task of
\* a strictly higher priority has been polled earlier in the same call and
\* was not ready then; it is not ready now either unless go() or the clock
\* made it ready after its poll.
C7_HigherTasksPolledNotReady ==
    s_pc \in {"clear", "run"} =>
        \A u \in Above(Current) :
            /\ u \in s_polled
            /\ u \notin s_woken => ~IsReady(u)

\* C7, witness: a routine is about to be resumed below a periodic task whose
\* deadline has not passed and a task that go() made ready after its poll.
C7_Witness ==
    /\ s_pc = "run"
    /\ \E u \in Above(Current) :
          /\ task[u].period # None
          /\ u \notin s_woken
          /\ ~IsReady(u)
    /\ \E u \in Above(Current) : u \in s_woken /\ IsReady(u)

\* C8: a call of pri_sched() resumes at most one routine, returns as soon
\* as a schedule() attempt returned True, and no step of it changes the
\* cursor or the tasks of a group below the group it is at.
C8_SingleDispatch ==
    /\ [](call_runs <= 1)
    /\ [][(s_pc = "run" /\ s_pc' # "run") => s_pc' = "idle"]_vars
    /\ [][DispatchStep =>
            /\ Len(pri_list') = Len(pri_list)
            /\ \A g \in (s_grp + 1) .. Len(pri_list) :
                  /\ pri_list'[g] = pri_list[g]
                  /\ \A u \in GroupTasks(pri_list[g]) : task'[u] = task[u]]_vars

\* C8, witness: a call that began with a task ready in a lower group has
\* returned after resuming one routine, and that task is still ready.
C8_Witness ==
    /\ s_pc = "idle"
    /\ call_runs = 1
    /\ starved >= 1
    /\ \E u \in Registered : task[u].go_flag /\ task[u].priority < ReadyPri

\* C9: with task H above tasks A and B of equal priority, registered in that
\* order, A and B ready at every call and H not ready, the calls resume
\* A, B, A, B, ..: the odd calls resume A and the even calls resume B.
C9_Alternation ==
    (alt_ok /\ n_calls >= 1) =>
        last_ran = IF odd_calls THEN At(pri_list[2], 2) ELSE At(pri_list[2], 3)

\* C9, witness: at least MaxCalls calls were made that way, an even number
\* of them, and the last one resumed B.
C9_Witness ==
    /\ alt_ok
    /\ s_pc = "idle"
    /\ n_calls = MaxCalls
    /\ ~odd_calls
    /\ last_ran = At(pri_list[2], 3)

\* C10: a call of pri_sched() that begins while a task of priority p is
\* ready resumes no task of a priority below p.  Hence while a task of a
\* higher priority is ready at every call, no task below it is ever resumed.
C10_Starvation ==
    s_pc \in {"clear", "run"} => task[Current].priority >= s_rdy_pri

\* C10, witness: the third call in a row that began with a task ready below
\* the highest ready priority is about to resume a task of that highest
\* priority, and a task below is ready still.
C10_Witness ==
    /\ s_pc = "run"
    /\ starved >= 3
    /\ task[Current].priority = s_rdy_pri
    /\ \E u \in Registered :
          IsReady(u) /\ task[u].priority < task[Current].priority

\* A step of pri_sched() that ends a schedule() attempt: schedule()
\* returned False after ready(), or returned True after the routine ran.
AttemptEnds ==
    /\ DispatchStep
    /\ \/ s_pc = "run"
       \/ s_pc = "poll" /\ s_pc' # "clear"

\* The position after position cursor in a group of Python length length.
NextInGroup(cursor, length) == 2 + ((cursor - 2 + 1) % (length - 2))

\* C32: the cursor of every group designates a task of the group
\* (2 <= cursor < length of the group), whatever tasks were appended to
\* the group; every step of pri_sched() that ends a schedule() attempt,
\* whether the task ran or not, moves the cursor of the group it is at to
\* the next position modulo the size of the group and leaves the rest of
\* the list as it is; no other step of pri_sched() changes the list.
C32_RotatingCursor ==
    /\ [](\A g \in 1 .. Len(pri_list) :
              2 <= pri_list[g][2] /\ pri_list[g][2] < Len(pri_list[g]))
    /\ [][AttemptEnds =>
              pri_list' = [pri_list EXCEPT ![s_grp][2] =
                              NextInGroup(@, Len(pri_list[s_grp]))]]_vars
    /\ [][(DispatchStep /\ ~AttemptEnds) => pri_list' = pri_list]_vars

\* C32, witness: a call has resumed a routine and returned; the cursor of a
\* group of three tasks is at the third, and the cursor of another group
\* is at its first task.
C32_Witness ==
    /\ s_pc = "idle"
    /\ call_runs = 1
    /\ \E g \in 1 .. Len(pri_list) :
          Len(pri_list[g]) = 5 /\ pri_list[g][2] = 4

\* The sweep of the current group ends with none of its tasks resumed:
\* schedule() returns False and the while loop of line 166 is left, for the
\* next group or for the end of the call.
SweepEndsFruitless ==
    /\ DispatchStep
    /\ s_pc = "poll"
    /\ s_pc' # "clear"
    /\ s_grp' # s_grp

\* The attempts this call has made on the current group, the one in
\* progress not counted: tries starts at 2 and grows by one per attempt.
AttemptsMade == s_tries - 2

\* C33: when a pri_sched() call resumes no task of a group, it calls
\* schedule() once on each task of the group, as many times as the group has
\* tasks, and the cursor of the group ends where it was when the call
\* began; and it stays there for the rest of the call.
C33_FruitlessSweep ==
    /\ [][SweepEndsFruitless =>
              /\ AttemptsMade + 1 = Len(pri_list[s_grp]) - 2
              /\ GroupTasks(pri_list[s_grp]) =
                    (s_polled \cup {Current})
                       \ UNION { GroupTasks(pri_list[g]) : g \in 1 .. s_grp - 1 }
              /\ pri_list'[s_grp][2] = s_cur0[s_grp]]_vars
    /\ [](s_pc # "idle" =>
              \A g \in 1 .. s_grp - 1 :
                  /\ pri_list[g][2] = s_cur0[g]
                  /\ GroupTasks(pri_list[g]) \subseteq s_polled)

\* A call has swept a group of two tasks and found neither ready, the cursor
\* of the group being on its second task, and is now at the next group.
C33_Witness ==
    /\ s_pc = "poll"
    /\ s_grp = 2
    /\ Len(pri_list[1]) = 4
    /\ pri_list[1][2] = 3
    /\ s_cur0[1] = 3

\* The number of tasks of the group task t is in: len(pri) - 2.
GroupSizeOf(t) ==
    LET g == CHOOSE h \in 1 .. Len(pri_list) : t \in GroupTasks(pri_list[h])
    IN  Len(pri_list[g]) - 2

\* C34: a task of a group of n tasks that is ready at the start of every
\* pri_sched() call, while no call resumes a task of higher priority, is
\* resumed at least once in every n consecutive calls: it never waits
\* through n calls in a row.
C34_BoundedWaiting ==
    \A t \in Registered : s_wait[t] < GroupSizeOf(t)

\* A task of a group of three is resumed by the third call in a row that
\* began with it ready, the two before having resumed the other two tasks.
C34_Witness ==
    /\ s_pc = "run"
    /\ s_wait[Current] = 2
    /\ GroupSizeOf(Current) = 3

----------------------------------------------------------------------------
(* Properties of routines that use a Queue, checked under SpecBlock.       *)

\* The routine that pri_sched() resumed is in the busy-wait of a main-context
\* get and the queue is empty, or of a put and the queue (one without
\* overwrite) is full.
Blocked ==
    \/ q_pc = "get_wait" /\ Queue_empty(queue)
    \/ q_pc = "put_wait" /\ Queue_full(queue)

\* C24: while a routine is in the busy-wait of get or put and no handler
\* changes the queue, the call does not return: every step leaves the
\* routine in the busy-wait, pri_sched() where it was (inside the
\* schedule() call that resumed the routine), and no routine is resumed.
\* So if no handler ever changes the queue, this lasts for ever.
C24_BlockingCallStalls ==
    [][(Blocked /\ queue' = queue) =>
          /\ q_pc' = q_pc
          /\ s_pc = "run"
          /\ s_pc' = "run"
          /\ <<s_grp, s_tries, s_length, pri_list>>'
                = <<s_grp, s_tries, s_length, pri_list>>
          /\ call_runs' = call_runs]_vars

\* C24, witness: the routine of a task is in the busy-wait of get while a
\* task of a higher priority is ready.
C24_Witness ==
    /\ q_pc = "get_wait"
    /\ s_pc = "run"
    /\ Queue_empty(queue)
    /\ \E u \in Above(Current) : task[u].go_flag

----------------------------------------------------------------------------
(* Properties of rr_sched, checked under SpecRR.                           *)

\* C11: a call of rr_sched() calls schedule() once on every registered
\* task, a task of a higher priority before a task of a lower one and, among
\* tasks of one priority, in the order of registration (the order of their
\* numbers); the routine of a task is resumed in the call exactly if the
\* task was ready when its schedule() was called.
C11_RoundRobinSweep ==
    /\ \A i, j \in 1 .. Len(r_seq) :
           i < j =>
              \/ task[r_seq[i]].priority > task[r_seq[j]].priority
              \/ /\ task[r_seq[i]].priority = task[r_seq[j]].priority
                 /\ r_seq[i] < r_seq[j]
    /\ r_done => SeqRange(r_seq) = Registered
    /\ r_ran \subseteq r_rdy
    /\ r_rdy \subseteq SeqRange(r_seq)
    /\ r_pc \in {"idle", "poll"} => r_ran = r_rdy

\* C11, witness: a call has returned after sweeping three tasks in two
\* groups; it resumed a task of the lower group and not every task, and did
\* not resume a task of the higher group.
C11_Witness ==
    /\ r_done
    /\ Len(r_seq) = 3
    /\ Len(pri_list) = 2
    /\ \E t \in r_ran : task[t].priority = pri_list[2][1]
    /\ \E t \in Registered \ r_ran : task[t].priority = pri_list[1][1]

----------------------------------------------------------------------------
(* Properties of one Task, checked under SpecTask.                         *)

\* C12: for a periodic task constructed with deadline d0 and period P,
\* after k activations that ready() each found less than a period late, the
\* next deadline is d0 + k * P modulo the range of the tick counter,
\* whatever the times ready() was evaluated at.
C12_DriftFreeDeadlines ==
    (t_task.period # None /\ t_ontime) =>
        (t_task.next_run[1] - (t_d0[1] + t_k * t_task.period[1]))
            % TICKS_PERIOD = 0

\* C12, witness: two activations, each less than a period late and not
\* equally late (the lateness profile tells), after which the deadline has
\* wrapped around the range of ticks_diff.
C12_Witness ==
    /\ t_task.period # None
    /\ t_ontime
    /\ t_k = 2
    /\ t_diag.prof
    /\ t_diag.late_sum # 2 * t_diag.latest
    /\ t_task.next_run[1] # t_d0[1] + t_k * t_task.period[1]

\* The task on its own is ready: its go flag is set, or it has a period and
\* its deadline has passed.
TaskIsReady ==
    \/ t_task.go_flag
    \/ /\ t_task.period # None
       /\ ticks_diff(t_now, t_task.next_run[1]) > 0

\* C13: schedule() called on a task that is not ready returns False and
\* changes nothing of the task: go flag, deadline, run count, profiling
\* sums, trace log, position of the routine.  Called on a task that is
\* ready it clears the go flag, resumes the routine once and returns True.
C13_ScheduleFrame ==
    /\ [][(t_last' = "schedule" /\ ~TaskIsReady) =>
            /\ t_ret' = "False"
            /\ t_pc' = "idle"
            /\ t_task' = t_task
            /\ t_diag' = t_diag
            /\ t_pos' = t_pos]_vars
    /\ [][(t_last' = "schedule" /\ TaskIsReady) =>
            /\ t_pc' = "clear"
            /\ t_pos' = t_pos]_vars
    /\ [][t_pc = "clear" =>
            \/ t_pc' = "clear"
            \/ t_pc' = "resume" /\ ~t_task'.go_flag]_vars
    /\ [][t_pc = "resume" =>
            \/ t_pc' = "resume" /\ t_pos' = t_pos
            \/ t_pc' = "running" /\ t_pos' = t_pos + 1]_vars
    /\ [][t_pc = "running" =>
            /\ t_pos' = t_pos
            /\ \/ t_pc' = "running"
               \/ t_pc' = "idle" /\ t_ret' = "True" /\ t_resumes' = 1]_vars

\* C13, witness: a periodic task with profiling and tracing whose routine
\* was resumed and traced before was not ready, and schedule() has just
\* returned False.
C13_Witness ==
    /\ t_last = "schedule"
    /\ t_ret = "False"
    /\ t_pos >= 1
    /\ t_task.period # None
    /\ t_diag.runs >= 1
    /\ t_diag.late_sum > 0
    /\ t_diag.trace
    /\ t_diag.tr_data # << >>

\* The time since the counter was 0 before the task was constructed, and
\* the deadline of the task on that scale: neither wraps around.
TrueNow == t_start + ((t_now - t_start) % TICKS_PERIOD)

TrueDeadline == t_d0[1] + t_k * t_task.period[1]

\* C27: the counter and the deadline wrap around the range of the ticks,
\* and yet ready() finds a periodic task ready exactly when the time is
\* past its deadline: it then sets the go flag and moves the deadline on,
\* and otherwise leaves the task as it is.  So the task has been activated
\* at most once for each deadline that has passed, across a wrap too.
C27_WrapSafeReadiness ==
    /\ [][(t_last' = "schedule" /\ t_task.period # None) =>
              IF TrueNow > TrueDeadline
              THEN /\ t_task'.go_flag
                   /\ t_task'.next_run # t_task.next_run
                   /\ t_k' = t_k + 1
                   /\ t_pc' = "clear"
              ELSE /\ t_task' = t_task
                   /\ t_k' = t_k]_vars
    /\ []((t_task.period # None /\ t_k >= 1) =>
              t_d0[1] + (t_k - 1) * t_task.period[1] < TrueNow)

\* C27, witness: the task was constructed before the counter wrapped to 0
\* with its first deadline before the wrap too; ready() has just found the
\* second deadline passed, after the wrap.
C27_Witness ==
    /\ t_last = "schedule"
    /\ t_pc = "clear"
    /\ t_task.period # None
    /\ t_start = TICKS_PERIOD - StartBefore
    /\ t_d0[1] < TICKS_PERIOD
    /\ t_now < t_start
    /\ t_k = 2

\* C14, checked under SpecTaskLive: a go() called at any step, also between
\* ready() and the clearing of the go flag and while the routine runs, is
\* not lost: until the routine is next resumed the go flag stays set or the
\* schedule() call in progress is between ready() and next(); and that
\* resumption comes, without the deadline having to pass.
C14_NoLostTrigger ==
    /\ [](t_pending => (t_task.go_flag \/ t_pc \in {"clear", "resume"}))
    /\ (t_pending ~> ~t_pending)

\* C14, witness: go() was called on a task without a period between ready()
\* and line 43, which cleared the flag; the routine, resumed once before, is
\* about to be resumed.
C14_Witness ==
    /\ t_pending
    /\ t_pc = "resume"
    /\ ~t_task.go_flag
    /\ t_task.period = None
    /\ t_pos >= 1

----------------------------------------------------------------------------
(* Properties of one Task whose period the program changes, checked under  *)
(* SpecPeriod.                                                             *)

\* C23, as claimed: when ready() finds a periodic task two whole periods or
\* more past its deadline, the schedule() calls made from then on without
\* the counter advancing (and without go() or set_period()) resume the
\* routine once, not more.
C23_BacklogCollapse ==
    (p_task.period # None /\ p_late0 >= 2 * p_task.period[1]) => p_burst <= 1

\* C25: once set_period(None) was called (and no set_period with a period
\* since), ready() returns the go flag as it is: schedule() returns True
\* exactly if the flag was set, which it is only after a go() that no
\* resumption followed yet; however far the counter is past the deadline
\* the task had, schedule() returns False and leaves the task as it is.
C25_ExternalTrigger ==
    [][(p_last' = "schedule" /\ p_external) =>
          /\ p_out' = IF p_task.go_flag THEN "True" ELSE "False"
          /\ p_out' = "True" => p_pending
          /\ p_out' = "False" => p_task' = p_task
          /\ p_task'.next_run = p_task.next_run]_vars

\* C25, witness: a periodic task, resumed before, was given
\* set_period(None); the counter is past its deadline and schedule() has
\* just returned False.
C25_Witness ==
    /\ p_last = "schedule"
    /\ p_out = "False"
    /\ p_external
    /\ p_pos >= 1
    /\ p_task.next_run # None
    /\ ticks_diff(p_now, p_task.next_run[1]) > 0

\* C28, as claimed: a task that has a period has a deadline, also after
\* set_period calls on a task constructed without a period, and ready()
\* can compute the lateness: schedule() does not raise.
C28_DeadlineDefined ==
    /\ p_task.period # None => p_task.next_run # None
    /\ p_out # "TypeError"

\* The task has a period and a deadline, and the counter has not passed the
\* deadline: ready(), line 82, computes late <= 0.
BeforeDeadline ==
    /\ p_task.period # None
    /\ p_task.next_run # None
    /\ ticks_diff(p_now, p_task.next_run[1]) <= 0

\* C35: go() sets the go flag and leaves the period and the deadline as they
\* are; the schedule() call that follows a go() on a periodic task whose
\* deadline has not passed resumes the routine and leaves the deadline as it
\* is; and a step changes the deadline only if it is a schedule() call on a
\* periodic task whose deadline has passed, and then to one period later.
C35_GoKeepsDeadline ==
    /\ [][p_last' = "go" =>
              /\ p_task'.go_flag
              /\ p_task'.period = p_task.period
              /\ p_task'.next_run = p_task.next_run]_vars
    /\ [][(p_last' = "schedule" /\ p_pending /\ BeforeDeadline) =>
              /\ p_out' = "True"
              /\ p_pos' = p_pos + 1
              /\ p_task'.next_run = p_task.next_run]_vars
    /\ [][p_task'.next_run # p_task.next_run =>
              /\ p_last' = "schedule"
              /\ p_task.period # None
              /\ p_task.next_run # None
              /\ ticks_diff(p_now, p_task.next_run[1]) > 0
              /\ p_task'.next_run # None
              /\ ticks_diff(p_task'.next_run[1], p_task.next_run[1])
                    = p_task.period[1]]_vars

\* C35, witness: the routine of a periodic task was resumed, by the
\* schedule() call just made, although the counter has not reached the
\* deadline the constructor set, which the task still has.
C35_Witness ==
    /\ p_last = "schedule"
    /\ p_out = "True"
    /\ p_pos >= 1
    /\ BeforeDeadline
    /\ p_task.next_run = Task_init(1, Some(PeriodMs), p_start).next_run

----------------------------------------------------------------------------
(* Properties of the profile and the trace, checked under SpecProf.        *)

RECURSIVE SeqSum(_)
SeqSum(seq) == IF seq = << >> THEN 0 ELSE Head(seq) + SeqSum(Tail(seq))

RECURSIVE SeqMax(_)
SeqMax(seq) ==
    IF seq = << >> THEN 0
    ELSE LET m == SeqMax(Tail(seq))
         IN  IF Head(seq) > m THEN Head(seq) ELSE m

\* The durations of the third and later resumptions.
Counted == SubSeq(p_durs, 3, Len(p_durs))

\* C29: with profiling, the run count is the number of resumptions, the
\* cumulative duration is the sum and the maximum duration the maximum of
\* the durations of the third and later resumptions; after one or two
\* resumptions both are 0.
C29_ProfileDiscardsTwo ==
    p_diag.prof =>
        /\ p_diag.runs = p_pos
        /\ p_diag.runs = Len(p_durs)
        /\ p_diag.run_sum = SeqSum(Counted)
        /\ p_diag.slowest = SeqMax(Counted)
        /\ p_pos <= 2 => (p_diag.run_sum = 0 /\ p_diag.slowest = 0)

\* C29, witness: four resumptions, the first longer than the third and the
\* fourth, which took time both; the counter wrapped to 0 meanwhile.
C29_Witness ==
    /\ p_diag.prof
    /\ Len(p_durs) = 4
    /\ p_durs[1] > p_durs[3]
    /\ p_durs[3] > 0
    /\ p_durs[4] > 0
    /\ p_diag.run_sum = p_durs[3] + p_durs[4]
    /\ p_diag.slowest < p_diag.run_sum
    /\ p_now < p_start

\* C30: with tracing, a resumption whose state code differs from the code
\* of the resumption before (0 before the first) appends one entry
\* (elapsed, code) to the log, unless the append finds no memory, which
\* switches tracing off; a resumption with the same code, and any other
\* step, leaves the log as it is.  The log only grows, and no two
\* consecutive entries carry the same code.
C30_TraceLogsChanges ==
    /\ [][LET old == p_diag.tr_data
              new == p_diag'.tr_data
          IN  IF /\ p_last' = "schedule"
                 /\ p_out' = "True"
                 /\ p_diag.trace
                 /\ p_diag'.prev_state # p_diag.prev_state
              THEN \/ /\ Len(new) = Len(old) + 1
                      /\ SubSeq(new, 1, Len(old)) = old
                      /\ new[Len(new)][2] = p_diag'.prev_state
                      /\ new[Len(new)][1]
                            = ticks_diff(p_now', p_diag.prev_time)
                      /\ p_diag'.trace
                   \/ /\ new = old
                      /\ ~p_diag'.trace
              ELSE new = old]_vars
    /\ [](\A i \in 1 .. (Len(p_diag.tr_data) - 1) :
              p_diag.tr_data[i][2] # p_diag.tr_data[i + 1][2])
    /\ [](Len(p_diag.tr_data) >= 1 => p_diag.tr_data[1][2] # 0)

\* C30, witness: four traced resumptions with the codes 1, 1, 0, 1 have
\* left three entries, the last one a while after the one before.
C30_Witness ==
    /\ p_diag.trace
    /\ p_pos = 4
    /\ Len(p_diag.tr_data) = 3
    /\ p_diag.tr_data[1][2] = 1
    /\ p_diag.tr_data[2][2] = 0
    /\ p_diag.tr_data[3][2] = 1
    /\ p_diag.tr_data[3][1] > 0

\* The task whose calls are made one after the other is ready.
SeqTaskIsReady ==
    \/ p_task.go_flag
    \/ /\ p_task.period # None
       /\ ticks_diff(p_now, p_task.next_run[1]) > 0

\* C31: when a traced resumption yields a changed state code and the log
\* is not appended to (the append found no memory), tracing is switched
\* off; the schedule() call that switches tracing off has resumed the
\* routine once and returns True with the go flag cleared; once tracing is
\* off it stays off and the log is not written again; and schedule() goes
\* on resuming the task whenever it is ready.
C31_TraceFailureRecovered ==
    /\ [][(/\ p_last' = "schedule"
            /\ p_out' = "True"
            /\ p_diag.trace
            /\ p_diag'.prev_state # p_diag.prev_state
            /\ p_diag'.tr_data = p_diag.tr_data) => ~p_diag'.trace]_vars
    /\ [][(p_diag.trace /\ ~p_diag'.trace) =>
              /\ p_last' = "schedule"
              /\ p_out' = "True"
              /\ p_pos' = p_pos + 1
              /\ ~p_task'.go_flag
              /\ p_diag'.tr_data = p_diag.tr_data]_vars
    /\ [][~p_diag.trace =>
              /\ ~p_diag'.trace
              /\ p_diag'.tr_data = p_diag.tr_data]_vars
    /\ [][(p_last' = "schedule" /\ ~p_diag.trace) =>
              IF SeqTaskIsReady
              THEN p_out' = "True" /\ p_pos' = p_pos + 1
              ELSE p_out' = "False" /\ p_pos' = p_pos]_vars

\* C31, witness: the log has an entry, tracing is off, the state code of
\* the last traced resumption is not the code of the last entry (the append
\* failed), and schedule() has just resumed the routine at a later time.
C31_Witness ==
    /\ p_last = "schedule"
    /\ p_out = "True"
    /\ ~p_diag.trace
    /\ Len(p_diag.tr_data) >= 1
    /\ p_diag.tr_data[Len(p_diag.tr_data)][2] # p_diag.prev_state
    /\ p_diag.prev_time # p_now
    /\ p_pos >= 3

----------------------------------------------------------------------------
(* Properties of TaskList.append, checked under SpecList.                  *)

\* C15: after any appends of tasks, the groups are in strictly descending
\* order of priority (so there is one group per priority), every task
\* appended is in the group of its own priority and nowhere else, once, and
\* the tasks of a group are in the order they were appended in (the order
\* of their numbers).
C15_TaskListStructure ==
    /\ \A g, h \in 1 .. Len(pri_list) :
           g < h => pri_list[g][1] > pri_list[h][1]
    /\ \A g \in 1 .. Len(pri_list) : Len(pri_list[g]) >= 3
    /\ \A t \in TaskIds :
           LET places == { << g, k >> \in (1 .. Len(pri_list)) \X (3 .. (NumTasks + 2)) :
                             k <= Len(pri_list[g]) /\ pri_list[g][k] = t }
           IN  IF task[t].made
               THEN /\ Cardinality(places) = 1
                    /\ \A pl \in places : pri_list[pl[1]][1] = task[t].priority
               ELSE places = {}
    /\ \A g \in 1 .. Len(pri_list) :
           \A k, l \in 3 .. Len(pri_list[g]) :
              k < l => pri_list[g][k] < pri_list[g][l]

\* C15, witness: task 1 opened a group, task 2 opened a group of a higher
\* priority, which sorts before it, and task 3 joined task 1 behind it.
C15_Witness ==
    /\ Len(pri_list) = 2
    /\ SubSeq(pri_list[1], 3, Len(pri_list[1])) = << 2 >>
    /\ SubSeq(pri_list[2], 3, Len(pri_list[2])) = << 1, 3 >>
    /\ task[3].priority = task[1].priority

=============================================================================
